---- MODULE Spec2Model ----
(***************************************************************************)
(* ThreadSafeCache<Key, Value> of include/thread_safe_cache.hpp: an LRU    *)
(* cache made of a hash index (cache_), a doubly linked chain of           *)
(* shared_ptr<Node> (head_, tail_, prev_, next_) and one std::mutex.       *)
(* Threads call get, put, remove, size, contains and clear; every call     *)
(* takes a lock_guard on mutex_ for its whole body.                        *)
(***************************************************************************)
EXTENDS Integers, Sequences, FiniteSets, TLC

\* ---- bounds of the model ----
NumThreads == 2
NumKeys == 3
MaxCapacity == 3
MaxPushes == 2
MaxProducers == 2
MaxConsumers == 1
MaxBufferSize == 1
MaxItems == 2
NumLockers == 3
NumHolders == 2
MaxPoolSize == 2
MaxAcquisitions == 3
MaxPhilosophers == 3
MaxEats == 1

Threads == 1..NumThreads
Keys == 1..NumKeys
\* Value is a template parameter the cache stores and copies and never
\* inspects: an old and a new value tell every behaviour apart
Values == {1, 2}

\* a null shared_ptr<Node>
NULL == 0
\* the addresses make_shared can return
NodeIds == 1..(NumKeys + MaxCapacity + 1)
\* mutex_ owned by nobody
NoThread == 0
\* argument slot of an operation that takes no key / no value
NoArg == 0

VARIABLES
    capacity_,  \* size_t capacity_
    head_,      \* std::shared_ptr<Node> head_
    tail_,      \* std::shared_ptr<Node> tail_
    cache_,     \* std::unordered_map<Key, std::shared_ptr<Node>> cache_
    heap,       \* the live Node objects: address -> [key_, value_, prev_, next_]
    mutex_,     \* the thread that owns mutex_, or NoThread
    pc,         \* where each thread is in its call
    op,         \* the operation each thread is executing
    key,        \* its key argument
    value,      \* its value argument
    ret,        \* its return value
    fault,      \* the process died (failed assert / null dereference)
    entry,      \* history: members and touched as they were when the thread got the lock
    touched,    \* history: the resident keys, most recently touched first
    last_put    \* history: per resident key the value of its most recent put

vars == <<capacity_, head_, tail_, cache_, heap, mutex_, pc, op, key, value,
          ret, fault, entry, touched, last_put>>

\* the items a producer may push
Items == {1, 2}

VARIABLES
    mQueue,     \* std::queue<T> mQueue, front first
    mCondVar,   \* the threads blocked in mCondVar.wait
    mShutdown,  \* std::atomic<bool> mShutdown
    mMutex,     \* the thread that owns mMutex, or NoThread
    qpc,        \* where each thread is in its call on the queue
    qop,        \* the member function of the queue each thread is executing
    item,       \* its item argument
    qret,       \* its return value
    qfault,     \* undefined behaviour happened (front() of an empty queue)
    pushed,     \* history: the items pushed, in the order the pushes took effect
    popped      \* history: the items returned by pops, in the order of the pops

queue_vars == <<mQueue, mCondVar, mShutdown, mMutex, qpc, qop, item, qret, qfault,
                pushed, popped>>

\* the worker threads of a ProducerConsumer
Producers == 1..MaxProducers
Consumers == (MaxProducers + 1)..(MaxProducers + MaxConsumers)
Workers == Producers \cup Consumers

\* the items producer_func returns: serial numbers
Serials == 1..MaxItems

VARIABLES
    buffer_size_,     \* size_t buffer_size_
    buffer_,          \* std::queue<T> buffer_, front first
    buffer_mutex_,    \* the worker that owns the ProducerConsumer's mutex_, or NoThread
    not_full_,        \* the producers blocked in not_full_.wait
    not_empty_,       \* the consumers blocked in not_empty_.wait
    running_,         \* std::atomic<bool> running_
    items_produced_,  \* std::atomic<size_t> items_produced_
    items_consumed_,  \* std::atomic<size_t> items_consumed_
    started,          \* the workers start() has created
    at,               \* where each worker is in its worker function
    holding,          \* the item a worker has in its local variable, or NoArg
    ctl,              \* where the thread that calls start() and stop() is
    next_item,        \* the serial number producer_func returned last
    was_pushed,       \* history: the items pushed into the buffer
    handed            \* history: how often each item was given to consumer_func

producer_consumer_vars ==
    <<buffer_size_, buffer_, buffer_mutex_, not_full_, not_empty_, running_,
      items_produced_, items_consumed_, started, at, holding, ctl, next_item,
      was_pushed, handed>>

\* the threads that use a ReadWriteLock
Lockers == 1..NumLockers

VARIABLES
    readers,    \* int readers
    writing,    \* bool writing
    rw_mutex_,  \* the thread that owns the ReadWriteLock's mutex_, or NoThread
    can_read,   \* the threads blocked in can_read.wait
    can_write,  \* the threads blocked in can_write.wait
    rw_pc,      \* where each thread is in its use of the lock
    rw_op       \* the member function each thread is in

read_write_lock_vars == <<readers, writing, rw_mutex_, can_read, can_write, rw_pc, rw_op>>

\* the threads that use a ResourcePool
Holders == 1..NumHolders

\* the largest value of the counters: size_t arithmetic is modulo SizeMax + 1
\* (31 bits here, 64 in the build; the counters stay far below either)
SizeMax == 2147483647

VARIABLES
    pool_size,             \* the pool_size the pool was constructed with
    available_resources_,  \* std::counting_semaphore<> available_resources_
    resource_pool_,        \* std::queue<std::shared_ptr<Resource>>, front first
    total_acquisitions_,   \* std::atomic<size_t> total_acquisitions_
    total_releases_,       \* std::atomic<size_t> total_releases_
    peak_usage_,           \* std::atomic<size_t> peak_usage_
    held,                  \* the resources each thread has acquired and not released
    rp_pc,                 \* where each thread is in its call on the pool
    rp_op,                 \* the member function each thread is in
    resource,              \* the local resource of acquire / try_acquire
    loaded,                \* the counter acquire has loaded first, and its value
    current_usage,         \* the local current_usage of acquire
    current_peak           \* the local current_peak of acquire

resource_pool_vars ==
    <<pool_size, available_resources_, resource_pool_, total_acquisitions_,
      total_releases_, peak_usage_, held, rp_pc, rp_op, resource, loaded,
      current_usage, current_peak>>

\* enum class State, as far as philosopher_routine and is_deadlocked name it
States == {"Think", "WaitLeft", "WaitRight", "Eat"}

\* a fork that nobody has locked
NoPhilosopher == -1

VARIABLES
    num_philosophers_,     \* int num_philosophers_
    dining_running_,       \* std::atomic<bool> running_ of DiningPhilosophers
    forks_,                \* std::vector<std::mutex> forks_: the owner of each
    eat_counts_,           \* std::vector<std::atomic<int>> eat_counts_
    states_,               \* std::vector<std::atomic<State>> states_
    dp_pc,                 \* where each philosopher thread is in philosopher_routine
    dp_ctl,                \* where the thread that starts and stops is
    scan,                  \* the locals of a running is_deadlocked()
    detected               \* what the last is_deadlocked() returned

dining_philosophers_vars ==
    <<num_philosophers_, dining_running_, forks_, eat_counts_, states_, dp_pc,
      dp_ctl, scan, detected>>

all_vars == <<vars, queue_vars, producer_consumer_vars, read_write_lock_vars,
              resource_pool_vars, dining_philosophers_vars>>

\* what the calls on the cache leave alone
outside_cache == <<queue_vars, producer_consumer_vars, read_write_lock_vars,
                   resource_pool_vars,
    dining_philosophers_vars>>
\* what the calls on the queue leave alone
outside_queue == <<vars, producer_consumer_vars, read_write_lock_vars,
                   resource_pool_vars,
    dining_philosophers_vars>>
\* what the workers of the ProducerConsumer leave alone
outside_producer_consumer == <<vars, queue_vars, read_write_lock_vars,
                               resource_pool_vars,
    dining_philosophers_vars>>
\* what the users of the ReadWriteLock leave alone
outside_read_write_lock == <<vars, queue_vars, producer_consumer_vars,
                             resource_pool_vars,
    dining_philosophers_vars>>
\* what the users of the ResourcePool leave alone
outside_resource_pool == <<vars, queue_vars, producer_consumer_vars,
                           read_write_lock_vars,
    dining_philosophers_vars>>
\* what the table of the DiningPhilosophers leaves alone
outside_dining_philosophers == <<vars, queue_vars, producer_consumer_vars,
    read_write_lock_vars, resource_pool_vars>>

\* ---- the data structure ----

\* Node(Key const & key, Value const & value)
Node(k, v) == [key_ |-> k, value_ |-> v, prev_ |-> NULL, next_ |-> NULL]

\* the members of one cache object, as a record the member functions transform
Members == [head_ |-> head_, tail_ |-> tail_, cache_ |-> cache_, heap |-> heap]

\* an unordered_map as a function on the keys it holds
MapInsert(m, k, n) == [x \in (DOMAIN m) \cup {k} |-> IF x = k THEN n ELSE m[x]]
MapErase(m, k) == [x \in (DOMAIN m) \ {k} |-> m[x]]
EmptyMap == [x \in {} |-> NULL]

\* shared_ptr ownership: a node lives while head_, tail_, an index entry or
\* the prev_/next_ of a live node refers to it
Referenced(s, n) ==
    \/ s.head_ = n
    \/ s.tail_ = n
    \/ \E k \in DOMAIN s.cache_ : s.cache_[k] = n
    \/ \E m \in DOMAIN s.heap : s.heap[m].prev_ = n \/ s.heap[m].next_ = n

RECURSIVE Release(_)
Release(s) ==
    LET dead == {n \in DOMAIN s.heap : ~Referenced(s, n)}
    IN  IF dead = {} THEN s
        ELSE Release([s EXCEPT !.heap = [n \in (DOMAIN s.heap) \ dead |-> s.heap[n]]])

\* std::make_shared<Node>(key, value): an address that holds no live node.
\* The code only compares node pointers for equality, so which free address
\* the allocator hands out is immaterial: this one gives address k to the
\* node of key k while that is free, and the lowest free address otherwise.
FreshNode(s, k) ==
    LET free == NodeIds \ DOMAIN s.heap
    IN  IF k \in free THEN k
        ELSE CHOOSE n \in free : \A m \in free : n <= m

\* faulty variant of move_to_front: tail_ is not moved off the node
move_to_front_keeps_tail(s, node) ==
    IF node = s.head_ THEN s
    ELSE
      LET prev == s.heap[node].prev_
          next == s.heap[node].next_
          s2 == IF prev # NULL
                THEN [s EXCEPT !.heap[prev].next_ = next] ELSE s
          s3 == IF next # NULL
                THEN [s2 EXCEPT !.heap[next].prev_ = prev] ELSE s2
          s4 == [s3 EXCEPT !.heap[node].prev_ = NULL,
                           !.heap[node].next_ = s3.head_]
          s5 == IF s4.head_ # NULL
                THEN [s4 EXCEPT !.heap[s4.head_].prev_ = node] ELSE s4
      IN  [s5 EXCEPT !.head_ = node]

\* void move_to_front(std::shared_ptr<Node> node)
move_to_front(s, node) ==
    IF node = s.head_ THEN s
    ELSE
      LET s1 == IF node = s.tail_
                THEN [s EXCEPT !.tail_ = s.heap[node].prev_] ELSE s
          prev == s1.heap[node].prev_
          next == s1.heap[node].next_
          s2 == IF prev # NULL
                THEN [s1 EXCEPT !.heap[prev].next_ = next] ELSE s1
          s3 == IF next # NULL
                THEN [s2 EXCEPT !.heap[next].prev_ = prev] ELSE s2
          s4 == [s3 EXCEPT !.heap[node].prev_ = NULL,
                           !.heap[node].next_ = s3.head_]
          s5 == IF s4.head_ # NULL
                THEN [s4 EXCEPT !.heap[s4.head_].prev_ = node] ELSE s4
      IN  [s5 EXCEPT !.head_ = node]

\* ---- return values ----
\* what a call hands back: opt for std::optional<Value> (<<>> is nullopt),
\* flag for bool, count for size_t; void operations return NoRet
NoRet == [opt |-> <<>>, flag |-> FALSE, count |-> 0]
Outcome(s, r, f) == [s |-> s, ret |-> r, fault |-> f]

\* ---- the bodies of the member functions, between lock and unlock ----

\* faulty variant of get: the value is returned without relinking the node
get_without_relink(s, k) ==
    IF k \in DOMAIN s.cache_
    THEN Outcome(s, [NoRet EXCEPT !.opt = <<s.heap[s.cache_[k]].value_>>], FALSE)
    ELSE Outcome(s, NoRet, FALSE)

\* faulty variant of get: the lookup is cache_[key], which inserts a null
\* entry for a key that is not there
get_inserts_on_miss(s, k) ==
    IF k \in DOMAIN s.cache_
    THEN LET node == s.cache_[k]
             result == <<s.heap[node].value_>>
         IN  Outcome(move_to_front(s, node), [NoRet EXCEPT !.opt = result], FALSE)
    ELSE Outcome([s EXCEPT !.cache_ = MapInsert(s.cache_, k, NULL)], NoRet, FALSE)

\* std::optional<Value> get(const Key &key)
get(s, k) ==
    IF k \in DOMAIN s.cache_
    THEN LET node == s.cache_[k]
             result == <<s.heap[node].value_>>
         IN  Outcome(move_to_front(s, node), [NoRet EXCEPT !.opt = result], FALSE)
    ELSE Outcome(s, NoRet, FALSE)

\* faulty variant of put_insert: a resident key is relinked but keeps its value
put_insert_keeps_value(s, k, v) ==
    IF k \in DOMAIN s.cache_
    THEN Outcome(move_to_front(s, s.cache_[k]), NoRet, FALSE)
    ELSE LET node == FreshNode(s, k)
             s1 == [s EXCEPT !.heap = MapInsert(s.heap, node, Node(k, v))]
             s2 == [s1 EXCEPT !.cache_ = MapInsert(s1.cache_, k, node)]
             s3 == [s2 EXCEPT !.heap[node].next_ = s2.head_]
             s4 == IF s3.head_ # NULL
                   THEN [s3 EXCEPT !.heap[s3.head_].prev_ = node]
                   ELSE [s3 EXCEPT !.tail_ = node]
         IN  Outcome([s4 EXCEPT !.head_ = node], NoRet, FALSE)

\* faulty variant of put_insert: the key is not looked up first, a new node is
\* linked every time (cache_.insert leaves the entry of a resident key alone)
put_insert_always_links(s, k, v) ==
    LET node == FreshNode(s, k)
        s1 == [s EXCEPT !.heap = MapInsert(s.heap, node, Node(k, v))]
        s2 == IF k \in DOMAIN s1.cache_ THEN s1
              ELSE [s1 EXCEPT !.cache_ = MapInsert(s1.cache_, k, node)]
        s3 == [s2 EXCEPT !.heap[node].next_ = s2.head_]
        s4 == IF s3.head_ # NULL
              THEN [s3 EXCEPT !.heap[s3.head_].prev_ = node]
              ELSE [s3 EXCEPT !.tail_ = node]
    IN  Outcome([s4 EXCEPT !.head_ = node], NoRet, FALSE)

\* faulty variant of put_insert: a resident key is updated where it is
put_insert_in_place(s, k, v) ==
    IF k \in DOMAIN s.cache_
    THEN Outcome([s EXCEPT !.heap[s.cache_[k]].value_ = v], NoRet, FALSE)
    ELSE LET node == FreshNode(s, k)
             s1 == [s EXCEPT !.heap = MapInsert(s.heap, node, Node(k, v))]
             s2 == [s1 EXCEPT !.cache_ = MapInsert(s1.cache_, k, node)]
             s3 == [s2 EXCEPT !.heap[node].next_ = s2.head_]
             s4 == IF s3.head_ # NULL
                   THEN [s3 EXCEPT !.heap[s3.head_].prev_ = node]
                   ELSE [s3 EXCEPT !.tail_ = node]
         IN  Outcome([s4 EXCEPT !.head_ = node], NoRet, FALSE)

\* put, lines 69-87: update and relink a resident key, or link a new node at
\* the head
put_insert(s, k, v) ==
    IF k \in DOMAIN s.cache_
    THEN LET node == s.cache_[k]
             s1 == [s EXCEPT !.heap[node].value_ = v]
         IN  Outcome(move_to_front(s1, node), NoRet, FALSE)
    ELSE LET node == FreshNode(s, k)
             s1 == [s EXCEPT !.heap = MapInsert(s.heap, node, Node(k, v))]
             s2 == [s1 EXCEPT !.cache_ = MapInsert(s1.cache_, k, node)]
             s3 == [s2 EXCEPT !.heap[node].next_ = s2.head_]
             s4 == IF s3.head_ # NULL
                   THEN [s3 EXCEPT !.heap[s3.head_].prev_ = node]
                   ELSE [s3 EXCEPT !.tail_ = node]
         IN  Outcome([s4 EXCEPT !.head_ = node], NoRet, FALSE)

\* faulty variant of put_insert_throws: the node is linked at the head before
\* the index is updated, so a failing insert leaves it in the chain
put_insert_links_first(s, k, v, failing) ==
    IF failing = "make_shared"
    THEN Outcome(s, NoRet, FALSE)
    ELSE LET node == FreshNode(s, k)
             s1 == [s EXCEPT !.heap = MapInsert(s.heap, node, Node(k, v))]
             s3 == [s1 EXCEPT !.heap[node].next_ = s1.head_]
             s4 == IF s3.head_ # NULL
                   THEN [s3 EXCEPT !.heap[s3.head_].prev_ = node]
                   ELSE [s3 EXCEPT !.tail_ = node]
         IN  Outcome([s4 EXCEPT !.head_ = node], NoRet, FALSE)

\* put of a key that is not resident, with std::make_shared or cache_.insert
\* throwing: a failing make_shared has made nothing; a failing insert leaves
\* the index as it was (single-element insert has no effect when it throws),
\* and the new node is owned by the local node alone when the stack unwinds
put_insert_throws(s, k, v, failing) ==
    IF failing = "make_shared"
    THEN Outcome(s, NoRet, FALSE)
    ELSE LET node == FreshNode(s, k)
         IN  Outcome([s EXCEPT !.heap = MapInsert(s.heap, node, Node(k, v))],
                     NoRet, FALSE)

\* faulty variant of put_evict: the tail is unlinked but stays in the index
put_evict_keeps_index(s, cap) ==
    IF Cardinality(DOMAIN s.cache_) > cap
    THEN IF s.tail_ = NULL \/ s.heap[s.tail_].prev_ = NULL
         THEN Outcome(s, NoRet, TRUE)
         ELSE LET newtail == s.heap[s.tail_].prev_
                  s1 == [s EXCEPT !.heap[newtail].next_ = NULL]
              IN  Outcome([s1 EXCEPT !.tail_ = newtail], NoRet, FALSE)
    ELSE Outcome(s, NoRet, FALSE)

\* faulty variant of put_evict: the eviction starts one entry too late
put_evict_late(s, cap) ==
    IF Cardinality(DOMAIN s.cache_) > cap + 1
    THEN IF s.tail_ = NULL \/ s.heap[s.tail_].prev_ = NULL
         THEN Outcome(s, NoRet, TRUE)
         ELSE LET newtail == s.heap[s.tail_].prev_
                  s1 == [s EXCEPT !.heap[newtail].next_ = NULL]
                  s2 == [s1 EXCEPT !.cache_ = MapErase(s1.cache_, s1.heap[s1.tail_].key_)]
              IN  Outcome([s2 EXCEPT !.tail_ = newtail], NoRet, FALSE)
    ELSE Outcome(s, NoRet, FALSE)

\* put, lines 88-95: drop the tail when the index outgrew capacity_.  With no
\* node before the tail, assert(newtail) aborts (or newtail->next_ is a null
\* dereference when the asserts are compiled out): the process dies.
put_evict(s, cap) ==
    IF Cardinality(DOMAIN s.cache_) > cap
    THEN IF s.tail_ = NULL \/ s.heap[s.tail_].prev_ = NULL
         THEN Outcome(s, NoRet, TRUE)
         ELSE LET newtail == s.heap[s.tail_].prev_
                  s1 == [s EXCEPT !.heap[newtail].next_ = NULL]
                  s2 == [s1 EXCEPT !.cache_ = MapErase(s1.cache_, s1.heap[s1.tail_].key_)]
              IN  Outcome([s2 EXCEPT !.tail_ = newtail], NoRet, FALSE)
    ELSE Outcome(s, NoRet, FALSE)

\* faulty variant of remove: the lookup is cache_[key], which inserts a null
\* entry for a key that is not there, and the call reports a removal
remove_inserts_on_miss(s, k) ==
    IF k \notin DOMAIN s.cache_
    THEN Outcome([s EXCEPT !.cache_ = MapInsert(s.cache_, k, NULL)],
                 [NoRet EXCEPT !.flag = TRUE], FALSE)
    ELSE LET node == s.cache_[k]
             prev == s.heap[node].prev_
             next == s.heap[node].next_
             s1 == [s EXCEPT !.heap[node].prev_ = NULL, !.heap[node].next_ = NULL]
             s2 == IF prev # NULL THEN [s1 EXCEPT !.heap[prev].next_ = next] ELSE s1
             s3 == IF next # NULL THEN [s2 EXCEPT !.heap[next].prev_ = prev] ELSE s2
             s4 == IF node = s3.tail_ THEN [s3 EXCEPT !.tail_ = prev] ELSE s3
             s5 == IF node = s4.head_ THEN [s4 EXCEPT !.head_ = next] ELSE s4
             s6 == [s5 EXCEPT !.cache_ = MapErase(s5.cache_, s5.heap[node].key_)]
         IN  Outcome(s6, [NoRet EXCEPT !.flag = TRUE], FALSE)

\* faulty variant of remove: the node before the removed one keeps pointing at it
remove_skips_prev_link(s, k) ==
    IF k \notin DOMAIN s.cache_
    THEN Outcome(s, NoRet, FALSE)
    ELSE LET node == s.cache_[k]
             prev == s.heap[node].prev_
             next == s.heap[node].next_
             s1 == [s EXCEPT !.heap[node].prev_ = NULL, !.heap[node].next_ = NULL]
             s3 == IF next # NULL THEN [s1 EXCEPT !.heap[next].prev_ = prev] ELSE s1
             s4 == IF node = s3.tail_ THEN [s3 EXCEPT !.tail_ = prev] ELSE s3
             s5 == IF node = s4.head_ THEN [s4 EXCEPT !.head_ = next] ELSE s4
             s6 == [s5 EXCEPT !.cache_ = MapErase(s5.cache_, s5.heap[node].key_)]
         IN  Outcome(s6, [NoRet EXCEPT !.flag = TRUE], FALSE)

\* bool remove(const Key &key).  Line 122 (tail_ == true) compiles only with
\* the asserts disabled, so it has no effect where remove exists.
remove(s, k) ==
    IF k \notin DOMAIN s.cache_
    THEN Outcome(s, NoRet, FALSE)
    ELSE LET node == s.cache_[k]
             prev == s.heap[node].prev_
             next == s.heap[node].next_
             s1 == [s EXCEPT !.heap[node].prev_ = NULL, !.heap[node].next_ = NULL]
             s2 == IF prev # NULL THEN [s1 EXCEPT !.heap[prev].next_ = next] ELSE s1
             s3 == IF next # NULL THEN [s2 EXCEPT !.heap[next].prev_ = prev] ELSE s2
             s4 == IF node = s3.tail_ THEN [s3 EXCEPT !.tail_ = prev] ELSE s3
             s5 == IF node = s4.head_ THEN [s4 EXCEPT !.head_ = next] ELSE s4
             s6 == [s5 EXCEPT !.cache_ = MapErase(s5.cache_, s5.heap[node].key_)]
         IN  Outcome(s6, [NoRet EXCEPT !.flag = TRUE], FALSE)

\* size_t size() const
size(s) == Outcome(s, [NoRet EXCEPT !.count = Cardinality(DOMAIN s.cache_)], FALSE)

\* faulty variant of contains: the lookup goes through get and relinks the node
contains_relinks(s, k) ==
    IF k \in DOMAIN s.cache_
    THEN Outcome(move_to_front(s, s.cache_[k]), [NoRet EXCEPT !.flag = TRUE], FALSE)
    ELSE Outcome(s, NoRet, FALSE)

\* bool contains(const Key &key) const
contains(s, k) == Outcome(s, [NoRet EXCEPT !.flag = (k \in DOMAIN s.cache_)], FALSE)

\* void clear(): the while loop unlinks from the head on
RECURSIVE clear_loop(_)
clear_loop(s) ==
    IF s.head_ = NULL THEN s
    ELSE LET next == s.heap[s.head_].next_
             s1 == [s EXCEPT !.heap[s.head_].prev_ = NULL,
                             !.heap[s.head_].next_ = NULL]
         IN  clear_loop([s1 EXCEPT !.head_ = next])

\* faulty variant of clear: head_, tail_ and the index are reset without
\* walking the chain, so the nodes keep their prev_/next_ pointers
clear_keeps_links(s) ==
    LET s1 == [s EXCEPT !.head_ = NULL, !.tail_ = NULL]
    IN  Outcome([s1 EXCEPT !.cache_ = EmptyMap], NoRet, FALSE)

\* faulty variant of clear: the chain is unlinked but the index keeps its entries
clear_keeps_index(s) ==
    LET s1 == clear_loop(s)
    IN  Outcome([s1 EXCEPT !.tail_ = NULL], NoRet, FALSE)

clear(s) ==
    LET s1 == clear_loop(s)
        s2 == [s1 EXCEPT !.tail_ = NULL]
    IN  Outcome([s2 EXCEPT !.cache_ = EmptyMap], NoRet, FALSE)

\* void put(const Key &key, const Value &value), both parts
put(s, cap, k, v) ==
    LET linked == put_insert(s, k, v)
    IN  IF linked.fault THEN linked ELSE put_evict(Release(linked.s), cap)

\* ---- the assert statements of the member functions ----
\* Each operator is the conjunction of the asserts its body passes, each
\* evaluated on the members as they are when the body reaches it.

\* get: assert(node) 51, assert(head_) 53, if (!tail_) assert(tail_) 54-55,
\* assert(head_ == node) 57
get_asserts(s, k) ==
    k \in DOMAIN s.cache_ =>
        LET node == s.cache_[k]
        IN  /\ node # NULL
            /\ s.head_ # NULL
            /\ s.tail_ # NULL
            /\ move_to_front(s, node).head_ = node

\* put, first part: assert(head_) 71, assert(tail_) 72,
\* assert(item != cache_.end()) 74, assert(node) 76 for a resident key;
\* assert(node->next_ == nullptr) 82 for a new one
put_insert_asserts(s, k, v) ==
    IF k \in DOMAIN s.cache_
    THEN /\ s.head_ # NULL
         /\ s.tail_ # NULL
         /\ k \in DOMAIN s.cache_
         /\ s.cache_[k] # NULL
    ELSE Node(k, v).next_ = NULL

\* put, second part: assert(tail_) 89, assert(newtail) 91
put_evict_asserts(s, cap) ==
    Cardinality(DOMAIN s.cache_) > cap =>
        /\ s.tail_ # NULL
        /\ s.heap[s.tail_].prev_ # NULL

\* remove: assert(node) 109 and, after head_ and tail_ were moved off the
\* node, assert(head_ ? head_->prev_ == nullptr : tail_ == true) 122, where
\* tail_ == true says that tail_ is not null
remove_asserts(s, k) ==
    k \in DOMAIN s.cache_ =>
        LET node == s.cache_[k]
            prev == s.heap[node].prev_
            next == s.heap[node].next_
            s1 == [s EXCEPT !.heap[node].prev_ = NULL, !.heap[node].next_ = NULL]
            s2 == IF prev # NULL THEN [s1 EXCEPT !.heap[prev].next_ = next] ELSE s1
            s3 == IF next # NULL THEN [s2 EXCEPT !.heap[next].prev_ = prev] ELSE s2
            s4 == IF node = s3.tail_ THEN [s3 EXCEPT !.tail_ = prev] ELSE s3
            s5 == IF node = s4.head_ THEN [s4 EXCEPT !.head_ = next] ELSE s4
        IN  /\ node # NULL
            /\ IF s5.head_ # NULL
               THEN s5.heap[s5.head_].prev_ = NULL
               ELSE s5.tail_ # NULL

\* ---- construction ----

\* explicit ThreadSafeCache(size_t capacity) : capacity_(capacity) {}
Constructed(capacity) ==
    /\ capacity_ = capacity
    /\ head_ = NULL
    /\ tail_ = NULL
    /\ cache_ = EmptyMap
    /\ heap = EmptyMap

NoEntry == [head_ |-> NULL, tail_ |-> NULL, cache_ |-> EmptyMap, heap |-> EmptyMap,
            touched |-> <<>>]

\* return slot of a call on the queue that has not returned anything yet
QueueNoRet == [opt |-> <<>>, flag |-> FALSE, count |-> 0, thrown |-> FALSE]

\* ThreadSafeQueue() = default, and no thread has called into the queue yet
QueueInit ==
    /\ mQueue = <<>>
    /\ mCondVar = {}
    /\ mShutdown = FALSE
    /\ mMutex = NoThread
    /\ qpc = [t \in Threads |-> "idle"]
    /\ qop = [t \in Threads |-> "none"]
    /\ item = [t \in Threads |-> NoArg]
    /\ qret = [t \in Threads |-> QueueNoRet]
    /\ qfault = FALSE
    /\ pushed = <<>>
    /\ popped = <<>>

\* ProducerConsumer(buffer_size), before start()
ProducerConsumerInit(buffer_size) ==
    /\ buffer_size_ = buffer_size
    /\ buffer_ = <<>>
    /\ buffer_mutex_ = NoThread
    /\ not_full_ = {}
    /\ not_empty_ = {}
    /\ running_ = FALSE
    /\ items_produced_ = 0
    /\ items_consumed_ = 0
    /\ started = {}
    /\ at = [w \in Workers |-> "unstarted"]
    /\ holding = [w \in Workers |-> NoArg]
    /\ ctl = "constructed"
    /\ next_item = 0
    /\ was_pushed = {}
    /\ handed = [i \in Serials |-> 0]

\* ReadWriteLock() = default, and no thread uses the lock yet
ReadWriteLockInit ==
    /\ readers = 0
    /\ writing = FALSE
    /\ rw_mutex_ = NoThread
    /\ can_read = {}
    /\ can_write = {}
    /\ rw_pc = [t \in Lockers |-> "idle"]
    /\ rw_op = [t \in Lockers |-> "none"]

\* ResourcePool(pool_size): the resources are numbered from 1, and no thread
\* uses the pool yet
ResourcePoolInit(n) ==
    /\ pool_size = n
    /\ available_resources_ = n
    /\ resource_pool_ = [i \in 1..n |-> i]
    /\ total_acquisitions_ = 0
    /\ total_releases_ = 0
    /\ peak_usage_ = 0
    /\ held = [t \in Holders |-> {}]
    /\ rp_pc = [t \in Holders |-> "idle"]
    /\ rp_op = [t \in Holders |-> "none"]
    /\ resource = [t \in Holders |-> NULL]
    /\ loaded = [t \in Holders |-> <<>>]
    /\ current_usage = [t \in Holders |-> 0]
    /\ current_peak = [t \in Holders |-> 0]

\* the philosophers, and the forks, of a table of n
Seats(n) == 0..(n - 1)

\* faulty variant of minfork: every philosopher starts with the fork of its own
\* number
minfork_own(id, total) == id

\* the lambda minfork of philosopher_routine
minfork(id, total) == IF id <= (id + 1) % total THEN id ELSE (id + 1) % total

\* the lambda maxfork of philosopher_routine
maxfork(id, total) == IF id >= (id + 1) % total THEN id ELSE (id + 1) % total

\* faulty variant of unlock_forks: left_fork stays locked
unlock_forks_keeps_left(forks, p) ==
    [f \in DOMAIN forks |->
        IF forks[f] = p /\ f # minfork(p, Cardinality(DOMAIN forks))
        THEN NoPhilosopher
        ELSE forks[f]]

\* the destructors of right_fork and left_fork: both forks of p are unlocked
unlock_forks(forks, p) ==
    [f \in DOMAIN forks |-> IF forks[f] = p THEN NoPhilosopher ELSE forks[f]]

\* the detector is not running
NoScan == [caller |-> "none", state |-> "none", next |-> 0]

\* DiningPhilosophers(num_philosophers): the forks are free, nobody has eaten,
\* and every state is the zero enumerator of State
DiningPhilosophersInit(n, zero) ==
    /\ num_philosophers_ = n
    /\ dining_running_ = FALSE
    /\ forks_ = [f \in Seats(n) |-> NoPhilosopher]
    /\ eat_counts_ = [p \in Seats(n) |-> 0]
    /\ states_ = [p \in Seats(n) |-> zero]
    /\ dp_pc = [p \in Seats(n) |-> "unstarted"]
    /\ dp_ctl = "constructed"
    /\ scan = NoScan
    /\ detected = FALSE

\* the other components, constructed and not used
Unused ==
    /\ ProducerConsumerInit(1)
    /\ ReadWriteLockInit
    /\ ResourcePoolInit(1)
    /\ DiningPhilosophersInit(2, "Think")

\* no thread has called into the cache yet
Quiet ==
    /\ QueueInit
    /\ mutex_ = NoThread
    /\ pc = [t \in Threads |-> "idle"]
    /\ op = [t \in Threads |-> "none"]
    /\ key = [t \in Threads |-> NoArg]
    /\ value = [t \in Threads |-> NoArg]
    /\ ret = [t \in Threads |-> NoRet]
    /\ fault = FALSE
    /\ entry = [t \in Threads |-> NoEntry]
    /\ touched = <<>>
    /\ last_put = [k \in Keys |-> NoArg]

\* a cache constructed with a capacity of one or more
Init ==
    /\ \E capacity \in 1..MaxCapacity : Constructed(capacity)
    /\ Quiet
    /\ Unused

\* a cache constructed with any capacity the constructor takes, 0 included
InitAnyCapacity ==
    /\ \E capacity \in 0..MaxCapacity : Constructed(capacity)
    /\ Quiet
    /\ Unused

\* ---- history ----
\* k was touched now; only the keys in the index are remembered
Touch(seq, k) == <<k>> \o SelectSeq(seq, LAMBDA x : x # k)
Resident(seq, index) == SelectSeq(seq, LAMBDA x : x \in DOMAIN index)
ResidentPut(f, index) == [k \in Keys |-> IF k \in DOMAIN index THEN f[k] ELSE NoArg]

\* ---- the steps of a call ----

\* a thread calls a member function of the shared cache and reaches its
\* first statement, the lock_guard
Call(t) ==
    /\ ~fault
    /\ pc[t] = "idle"
    /\ pc' = [pc EXCEPT ![t] = "lock"]
    /\ UNCHANGED <<capacity_, head_, tail_, cache_, heap, mutex_, op, key, value,
                   ret, fault, entry, touched, last_put>>
    /\ UNCHANGED outside_cache

\* faulty variant of mutex_lock: the lock is taken whoever owns it
mutex_lock_unguarded(t) == mutex_' = t

\* std::mutex::lock: blocks while another thread owns the mutex
mutex_lock(t) ==
    /\ mutex_ = NoThread
    /\ mutex_' = t

\* std::lock_guard<std::mutex> lock(mutex_) of member function o called with
\* arguments k and v
Lock(t, o, k, v) ==
    /\ ~fault
    /\ pc[t] = "lock"
    /\ mutex_lock(t)
    /\ pc' = [pc EXCEPT ![t] = "body"]
    /\ op' = [op EXCEPT ![t] = o]
    /\ key' = [key EXCEPT ![t] = k]
    /\ value' = [value EXCEPT ![t] = v]
    /\ entry' = [entry EXCEPT ![t] =
                    [head_ |-> head_, tail_ |-> tail_, cache_ |-> cache_,
                     heap |-> heap, touched |-> touched]]
    /\ UNCHANGED <<capacity_, head_, tail_, cache_, heap, ret, fault, touched,
                   last_put>>
    /\ UNCHANGED outside_cache

LockGet(t) == \E k \in Keys : Lock(t, "get", k, NoArg)
LockPut(t) == \E k \in Keys, v \in Values : Lock(t, "put", k, v)
LockRemove(t) == \E k \in Keys : Lock(t, "remove", k, NoArg)
LockSize(t) == Lock(t, "size", NoArg, NoArg)
LockContains(t) == \E k \in Keys : Lock(t, "contains", k, NoArg)
LockClear(t) == Lock(t, "clear", NoArg, NoArg)

\* the effect of a body on the members; nodes no shared_ptr refers to any
\* more are destroyed when the body's locals go out of scope
Apply(t, out, next_pc, recency, written) ==
    /\ UNCHANGED outside_cache
    /\ IF out.fault
       THEN /\ fault' = TRUE
            /\ UNCHANGED <<head_, tail_, cache_, heap, ret, pc, touched, last_put>>
       ELSE LET s == Release(out.s)
            IN  /\ head_' = s.head_
                /\ tail_' = s.tail_
                /\ cache_' = s.cache_
                /\ heap' = s.heap
                /\ ret' = [ret EXCEPT ![t] = out.ret]
                /\ pc' = [pc EXCEPT ![t] = next_pc]
                /\ fault' = FALSE
                /\ touched' = Resident(recency, s.cache_)
                /\ last_put' = ResidentPut(written, s.cache_)

Get(t) ==
    /\ ~fault
    /\ pc[t] = "body" /\ op[t] = "get"
    /\ LET out == get(Members, key[t])
       IN  Apply(t, out, "unlock",
                 IF out.ret.opt # <<>> THEN Touch(touched, key[t]) ELSE touched,
                 last_put)
    /\ UNCHANGED <<capacity_, mutex_, op, key, value, entry>>

PutInsert(t) ==
    /\ ~fault
    /\ pc[t] = "body" /\ op[t] = "put"
    /\ Apply(t, put_insert(Members, key[t], value[t]), "evict",
             Touch(touched, key[t]), [last_put EXCEPT ![key[t]] = value[t]])
    /\ UNCHANGED <<capacity_, mutex_, op, key, value, entry>>

PutEvict(t) ==
    /\ ~fault
    /\ pc[t] = "evict"
    /\ Apply(t, put_evict(Members, capacity_), "unlock", touched, last_put)
    /\ UNCHANGED <<capacity_, mutex_, op, key, value, entry>>

Remove(t) ==
    /\ ~fault
    /\ pc[t] = "body" /\ op[t] = "remove"
    /\ Apply(t, remove(Members, key[t]), "unlock", touched, last_put)
    /\ UNCHANGED <<capacity_, mutex_, op, key, value, entry>>

Size(t) ==
    /\ ~fault
    /\ pc[t] = "body" /\ op[t] = "size"
    /\ Apply(t, size(Members), "unlock", touched, last_put)
    /\ UNCHANGED <<capacity_, mutex_, op, key, value, entry>>

Contains(t) ==
    /\ ~fault
    /\ pc[t] = "body" /\ op[t] = "contains"
    /\ Apply(t, contains(Members, key[t]), "unlock", touched, last_put)
    /\ UNCHANGED <<capacity_, mutex_, op, key, value, entry>>

Clear(t) ==
    /\ ~fault
    /\ pc[t] = "body" /\ op[t] = "clear"
    /\ Apply(t, clear(Members), "unlock", touched, last_put)
    /\ UNCHANGED <<capacity_, mutex_, op, key, value, entry>>

\* faulty variant of mutex_unlock: the owner is left in place
mutex_unlock_keeps_owner(t) == mutex_' = mutex_

\* std::mutex::unlock
mutex_unlock(t) == mutex_' = NoThread

\* ~lock_guard: the mutex is released and the call returns to its caller
Unlock(t) ==
    /\ ~fault
    /\ pc[t] = "unlock"
    /\ mutex_unlock(t)
    /\ pc' = [pc EXCEPT ![t] = "idle"]
    /\ op' = [op EXCEPT ![t] = "none"]
    /\ key' = [key EXCEPT ![t] = NoArg]
    /\ value' = [value EXCEPT ![t] = NoArg]
    /\ ret' = [ret EXCEPT ![t] = NoRet]
    /\ entry' = [entry EXCEPT ![t] = NoEntry]
    /\ UNCHANGED <<capacity_, head_, tail_, cache_, heap, fault, touched, last_put>>
    /\ UNCHANGED outside_cache

Next ==
    \E t \in Threads :
        \/ Call(t)
        \/ LockGet(t)
        \/ LockPut(t)
        \/ LockRemove(t)
        \/ LockSize(t)
        \/ LockContains(t)
        \/ LockClear(t)
        \/ Get(t)
        \/ PutInsert(t)
        \/ PutEvict(t)
        \/ Remove(t)
        \/ Size(t)
        \/ Contains(t)
        \/ Clear(t)
        \/ Unlock(t)

Spec == Init /\ [][Next]_all_vars

\* the steps of thread t inside a member function
Enter(t) ==
    \/ LockGet(t) \/ LockPut(t) \/ LockRemove(t)
    \/ LockSize(t) \/ LockContains(t) \/ LockClear(t)
Run(t) ==
    \/ Get(t) \/ PutInsert(t) \/ PutEvict(t) \/ Remove(t)
    \/ Size(t) \/ Contains(t) \/ Clear(t) \/ Unlock(t)

\* put of a new key fails in make_shared or in cache_.insert, and the exception
\* leaves the function
PutThrows(t) ==
    /\ ~fault
    /\ pc[t] = "body" /\ op[t] = "put"
    /\ key[t] \notin DOMAIN cache_
    /\ \E failing \in {"make_shared", "insert"} :
           Apply(t, put_insert_throws(Members, key[t], value[t], failing),
                 "unwind", touched, last_put)
    /\ UNCHANGED <<capacity_, mutex_, op, key, value, entry>>

\* the lock_guard is destroyed while the exception propagates to the caller
Unwind(t) ==
    /\ ~fault
    /\ pc[t] = "unwind"
    /\ mutex_unlock(t)
    /\ pc' = [pc EXCEPT ![t] = "idle"]
    /\ op' = [op EXCEPT ![t] = "none"]
    /\ key' = [key EXCEPT ![t] = NoArg]
    /\ value' = [value EXCEPT ![t] = NoArg]
    /\ ret' = [ret EXCEPT ![t] = NoRet]
    /\ entry' = [entry EXCEPT ![t] = NoEntry]
    /\ UNCHANGED <<capacity_, head_, tail_, cache_, heap, fault, touched, last_put>>
    /\ UNCHANGED outside_cache

NextWithFailures ==
    \/ Next
    \/ \E t \in Threads : PutThrows(t) \/ Unwind(t)

\* the threads on a cache whose allocations may fail
SpecWithFailures == Init /\ [][NextWithFailures]_all_vars

\* the smallest cache: every insertion of a second key evicts
InitSmallest == Constructed(1) /\ Quiet /\ Unused

\* fair scheduling: a thread that holds the lock keeps running, and a thread
\* that waits for the lock gets it at one of the times it is free
SpecFair ==
    /\ InitSmallest
    /\ [][Next]_all_vars
    /\ \A t \in Threads : SF_all_vars(Enter(t)) /\ WF_all_vars(Run(t))

\* the same threads on a cache of any capacity
SpecAnyCapacity == InitAnyCapacity /\ [][Next]_all_vars

\* ---- ThreadSafeQueue ----

\* mQueue.emplace(item)
emplace(q, i) == Append(q, i)

\* faulty variant of try_pop: the front is returned and left in the queue
try_pop_keeps_front(q) ==
    IF q # <<>>
    THEN [mQueue |-> q, opt |-> <<Head(q)>>]
    ELSE [mQueue |-> q, opt |-> <<>>]

\* faulty variant of try_pop: the front is returned and the back is removed
try_pop_takes_back(q) ==
    IF q # <<>>
    THEN [mQueue |-> SubSeq(q, 1, Len(q) - 1), opt |-> <<Head(q)>>]
    ELSE [mQueue |-> q, opt |-> <<>>]

\* the body of try_pop: the front is moved out and popped, or nullopt
try_pop(q) ==
    IF q # <<>>
    THEN [mQueue |-> Tail(q), opt |-> <<Head(q)>>]
    ELSE [mQueue |-> q, opt |-> <<>>]

\* the predicate wait_and_pop waits for
predicate(q, shutdown) == q # <<>> \/ shutdown

\* faulty variant of wait_and_pop: after shutdown it throws whatever is queued
wait_and_pop_drops_rest(q, shutdown) ==
    IF shutdown
    THEN [mQueue |-> q, opt |-> <<>>, thrown |-> TRUE, undefined |-> FALSE]
    ELSE IF q = <<>>
    THEN [mQueue |-> q, opt |-> <<>>, thrown |-> FALSE, undefined |-> TRUE]
    ELSE [mQueue |-> Tail(q), opt |-> <<Head(q)>>, thrown |-> FALSE,
          undefined |-> FALSE]

\* the body of wait_and_pop after the wait: it throws, or moves the front out
\* and pops it; front() of an empty queue is undefined behaviour
wait_and_pop(q, shutdown) ==
    IF shutdown /\ q = <<>>
    THEN [mQueue |-> q, opt |-> <<>>, thrown |-> TRUE, undefined |-> FALSE]
    ELSE IF q = <<>>
    THEN [mQueue |-> q, opt |-> <<>>, thrown |-> FALSE, undefined |-> TRUE]
    ELSE [mQueue |-> Tail(q), opt |-> <<Head(q)>>, thrown |-> FALSE,
          undefined |-> FALSE]

\* faulty variant of notify_one: nobody is woken
notify_one_lost(waiting) == {{}}

\* std::condition_variable::notify_one: the sets of threads it may wake
notify_one(waiting) ==
    IF waiting = {} THEN {{}} ELSE {{w} : w \in waiting}

\* std::condition_variable::notify_all: the set of threads it wakes
notify_all(waiting) == waiting

\* the threads in woken leave mCondVar.wait and go for the mutex again, and
\* thread t goes on to position next
Wake(t, next, woken) ==
    /\ mCondVar' = mCondVar \ woken
    /\ qpc' = [u \in Threads |->
                  IF u = t THEN next
                  ELSE IF u \in woken THEN "relock"
                  ELSE qpc[u]]

\* the pushes that have been called and have not taken effect yet
PushesUnderWay == Cardinality({u \in Threads : qop[u] = "push" /\ qpc[u] = "body"})

\* a thread calls a member function of the queue
QueueCall(t) ==
    /\ ~qfault
    /\ qpc[t] = "idle"
    /\ qpc' = [qpc EXCEPT ![t] = "call"]
    /\ UNCHANGED <<mQueue, mCondVar, mShutdown, mMutex, qop, item, qret, qfault,
                   pushed, popped>>
    /\ UNCHANGED outside_queue

\* std::mutex::lock on mMutex: blocks while another thread owns it
mMutex_lock(t) ==
    /\ mMutex = NoThread
    /\ mMutex' = t

\* the lock_guard / unique_lock at the top of member function o called with item i
QueueLock(t, o, i) ==
    /\ ~qfault
    /\ qpc[t] = "call"
    /\ mMutex_lock(t)
    /\ qpc' = [qpc EXCEPT ![t] = "body"]
    /\ qop' = [qop EXCEPT ![t] = o]
    /\ item' = [item EXCEPT ![t] = i]
    /\ UNCHANGED <<mQueue, mCondVar, mShutdown, qret, qfault, pushed, popped>>
    /\ UNCHANGED outside_queue

LockPush(t) ==
    /\ Len(pushed) + PushesUnderWay < MaxPushes
    /\ \E i \in Items : QueueLock(t, "push", i)
LockTryPop(t) == QueueLock(t, "try_pop", NoArg)
LockWaitAndPop(t) == QueueLock(t, "wait_and_pop", NoArg)
LockEmpty(t) == QueueLock(t, "empty", NoArg)
LockQueueSize(t) == QueueLock(t, "size", NoArg)

\* push: the item is appended and one waiting thread is notified
Push(t) ==
    /\ ~qfault
    /\ qpc[t] = "body" /\ qop[t] = "push"
    /\ mQueue' = emplace(mQueue, item[t])
    /\ pushed' = Append(pushed, item[t])
    /\ \E woken \in notify_one(mCondVar) : Wake(t, "unlock", woken)
    /\ UNCHANGED <<mShutdown, mMutex, qop, item, qret, qfault, popped>>
    /\ UNCHANGED outside_queue

TryPop(t) ==
    /\ ~qfault
    /\ qpc[t] = "body" /\ qop[t] = "try_pop"
    /\ LET out == try_pop(mQueue)
       IN  /\ mQueue' = out.mQueue
           /\ qret' = [qret EXCEPT ![t].opt = out.opt]
           /\ popped' = popped \o out.opt
    /\ qpc' = [qpc EXCEPT ![t] = "unlock"]
    /\ UNCHANGED <<mCondVar, mShutdown, mMutex, qop, item, qfault, pushed>>
    /\ UNCHANGED outside_queue

\* mCondVar.wait(lock, pred) evaluates pred with the mutex held
WaitPredicate(t) ==
    /\ ~qfault
    /\ qpc[t] = "body" /\ qop[t] = "wait_and_pop"
    /\ qpc' = [qpc EXCEPT ![t] =
                  IF predicate(mQueue, mShutdown) THEN "check" ELSE "wait"]
    /\ UNCHANGED <<mQueue, mCondVar, mShutdown, mMutex, qop, item, qret, qfault,
                   pushed, popped>>
    /\ UNCHANGED outside_queue

\* std::mutex::unlock on mMutex
mMutex_unlock(t) == mMutex' = NoThread

\* mCondVar.wait(lock): the mutex is released and the thread blocks, atomically
WaitBlock(t) ==
    /\ ~qfault
    /\ qpc[t] = "wait"
    /\ mMutex_unlock(t)
    /\ mCondVar' = mCondVar \cup {t}
    /\ qpc' = [qpc EXCEPT ![t] = "blocked"]
    /\ UNCHANGED <<mQueue, mShutdown, qop, item, qret, qfault, pushed, popped>>
    /\ UNCHANGED outside_queue

\* a blocked thread may wake up without any notification
SpuriousWakeup(t) ==
    /\ ~qfault
    /\ t \in mCondVar
    /\ Wake(t, "relock", {t})
    /\ UNCHANGED <<mQueue, mShutdown, mMutex, qop, item, qret, qfault, pushed,
                   popped>>
    /\ UNCHANGED outside_queue

\* a woken thread takes the mutex again before wait evaluates pred again
WaitRelock(t) ==
    /\ ~qfault
    /\ qpc[t] = "relock"
    /\ mMutex_lock(t)
    /\ qpc' = [qpc EXCEPT ![t] = "body"]
    /\ UNCHANGED <<mQueue, mCondVar, mShutdown, qop, item, qret, qfault, pushed,
                   popped>>
    /\ UNCHANGED outside_queue

\* wait_and_pop after the wait
WaitAndPop(t) ==
    /\ ~qfault
    /\ qpc[t] = "check"
    /\ LET out == wait_and_pop(mQueue, mShutdown)
       IN  /\ mQueue' = out.mQueue
           /\ qret' = [qret EXCEPT ![t].opt = out.opt, ![t].thrown = out.thrown]
           /\ popped' = popped \o out.opt
           /\ qfault' = out.undefined
    /\ qpc' = [qpc EXCEPT ![t] = "unlock"]
    /\ UNCHANGED <<mCondVar, mShutdown, mMutex, qop, item, pushed>>
    /\ UNCHANGED outside_queue

Empty(t) ==
    /\ ~qfault
    /\ qpc[t] = "body" /\ qop[t] = "empty"
    /\ qret' = [qret EXCEPT ![t].flag = (mQueue = <<>>)]
    /\ qpc' = [qpc EXCEPT ![t] = "unlock"]
    /\ UNCHANGED <<mQueue, mCondVar, mShutdown, mMutex, qop, item, qfault, pushed,
                   popped>>
    /\ UNCHANGED outside_queue

QueueSize(t) ==
    /\ ~qfault
    /\ qpc[t] = "body" /\ qop[t] = "size"
    /\ qret' = [qret EXCEPT ![t].count = Len(mQueue)]
    /\ qpc' = [qpc EXCEPT ![t] = "unlock"]
    /\ UNCHANGED <<mQueue, mCondVar, mShutdown, mMutex, qop, item, qfault, pushed,
                   popped>>
    /\ UNCHANGED outside_queue

\* the lock goes out of scope: the mutex is released and the call returns or
\* throws to its caller
QueueUnlock(t) ==
    /\ ~qfault
    /\ qpc[t] = "unlock"
    /\ mMutex_unlock(t)
    /\ qpc' = [qpc EXCEPT ![t] = "idle"]
    /\ qop' = [qop EXCEPT ![t] = "none"]
    /\ item' = [item EXCEPT ![t] = NoArg]
    /\ qret' = [qret EXCEPT ![t] = QueueNoRet]
    /\ UNCHANGED <<mQueue, mCondVar, mShutdown, qfault, pushed, popped>>
    /\ UNCHANGED outside_queue

\* shutdown, first statement: mShutdown = true, without the mutex
ShutdownStore(t) ==
    /\ ~qfault
    /\ qpc[t] = "call"
    /\ mShutdown' = TRUE
    /\ qpc' = [qpc EXCEPT ![t] = "notify"]
    /\ qop' = [qop EXCEPT ![t] = "shutdown"]
    /\ UNCHANGED <<mQueue, mCondVar, mMutex, item, qret, qfault, pushed, popped>>
    /\ UNCHANGED outside_queue

\* shutdown, second statement: mCondVar.notify_all(), and the call returns
ShutdownNotify(t) ==
    /\ ~qfault
    /\ qpc[t] = "notify"
    /\ Wake(t, "idle", notify_all(mCondVar))
    /\ qop' = [qop EXCEPT ![t] = "none"]
    /\ UNCHANGED <<mQueue, mShutdown, mMutex, item, qret, qfault, pushed, popped>>
    /\ UNCHANGED outside_queue

QueueNext ==
    \E t \in Threads :
        \/ QueueCall(t)
        \/ LockPush(t)
        \/ LockTryPop(t)
        \/ LockWaitAndPop(t)
        \/ LockEmpty(t)
        \/ LockQueueSize(t)
        \/ Push(t)
        \/ TryPop(t)
        \/ WaitPredicate(t)
        \/ WaitBlock(t)
        \/ SpuriousWakeup(t)
        \/ WaitRelock(t)
        \/ WaitAndPop(t)
        \/ Empty(t)
        \/ QueueSize(t)
        \/ QueueUnlock(t)
        \/ ShutdownStore(t)
        \/ ShutdownNotify(t)

\* threads working on a queue, next to a cache nobody calls
SpecQueue == InitSmallest /\ [][QueueNext]_all_vars

\* the steps of thread t that take mMutex
QueueEnter(t) ==
    \/ LockPush(t) \/ LockTryPop(t) \/ LockWaitAndPop(t)
    \/ LockEmpty(t) \/ LockQueueSize(t) \/ WaitRelock(t)
\* the steps of thread t that nothing holds up
QueueRun(t) ==
    \/ Push(t) \/ TryPop(t) \/ WaitPredicate(t) \/ WaitBlock(t) \/ WaitAndPop(t)
    \/ Empty(t) \/ QueueSize(t) \/ QueueUnlock(t) \/ ShutdownNotify(t)

\* fair scheduling: a thread that can run keeps running, and a thread that
\* waits for mMutex gets it at one of the times it is free; nothing promises
\* a spurious wakeup or a further call
SpecQueueFair ==
    /\ InitSmallest
    /\ [][QueueNext]_all_vars
    /\ \A t \in Threads : SF_all_vars(QueueEnter(t)) /\ WF_all_vars(QueueRun(t))

\* ---- ProducerConsumer ----

\* faulty variant of producer_predicate: the wait only looks at running_
producer_predicate_unbounded(buffer, buffer_size, running) == TRUE

\* the predicate producer_worker waits for on not_full_
producer_predicate(buffer, buffer_size, running) ==
    Len(buffer) < buffer_size \/ ~running

\* the predicate consumer_worker waits for on not_empty_
consumer_predicate(buffer, running) == buffer # <<>> \/ ~running

\* faulty variant of consumer_exits: the consumer leaves as soon as running_
\* is false
consumer_exits_at_once(buffer, running) == ~running

\* consumer_worker leaves its loop only if shutdown and the buffer is empty
consumer_exits(buffer, running) == ~running /\ buffer = <<>>

\* worker w goes on to position next, and the workers in woken leave their
\* wait and go for the mutex again
Go(w, next, woken) ==
    at' = [u \in Workers |->
              IF u = w THEN next
              ELSE IF u \in woken THEN "relock"
              ELSE at[u]]

\* start(num_producers, num_consumers, ...): running_ is set and the worker
\* threads are created
Start(num_producers, num_consumers) ==
    /\ ctl = "constructed"
    /\ running_' = TRUE
    /\ started' = (1..num_producers)
                      \cup ((MaxProducers + 1)..(MaxProducers + num_consumers))
    /\ at' = [w \in Workers |->
                 IF w \in started'
                 THEN (IF w \in Producers THEN "loop" ELSE "lock")
                 ELSE at[w]]
    /\ ctl' = "started"
    /\ UNCHANGED <<buffer_size_, buffer_, buffer_mutex_, not_full_, not_empty_,
                   items_produced_, items_consumed_, holding, next_item,
                   was_pushed, handed>>
    /\ UNCHANGED outside_producer_consumer

StartWorkers ==
    \E num_producers \in 1..MaxProducers, num_consumers \in 1..MaxConsumers :
        Start(num_producers, num_consumers)

\* producer_worker, loop condition and producer_func(): the producer leaves
\* when running_ is false, and fetches the next serial number otherwise
ProducerLoop(p) ==
    /\ p \in Producers /\ at[p] = "loop"
    /\ IF ~running_
       THEN /\ at' = [at EXCEPT ![p] = "exited"]
            /\ UNCHANGED <<holding, next_item>>
       ELSE /\ next_item < MaxItems
            /\ next_item' = next_item + 1
            /\ holding' = [holding EXCEPT ![p] = next_item + 1]
            /\ at' = [at EXCEPT ![p] = "lock"]
    /\ UNCHANGED <<buffer_size_, buffer_, buffer_mutex_, not_full_, not_empty_,
                   running_, items_produced_, items_consumed_, started, ctl,
                   was_pushed, handed>>
    /\ UNCHANGED outside_producer_consumer

\* std::unique_lock<std::mutex> lock(mutex_) in a worker, and the wait taking
\* the mutex again after a wakeup
WorkerLock(w) ==
    /\ at[w] \in {"lock", "relock"}
    /\ buffer_mutex_ = NoThread
    /\ buffer_mutex_' = w
    /\ at' = [at EXCEPT ![w] = "pred"]
    /\ UNCHANGED <<buffer_size_, buffer_, not_full_, not_empty_, running_,
                   items_produced_, items_consumed_, started, holding, ctl,
                   next_item, was_pushed, handed>>
    /\ UNCHANGED outside_producer_consumer

\* wait(lock, pred) evaluates pred with the mutex held
WorkerPredicate(w) ==
    /\ at[w] = "pred"
    /\ at' = [at EXCEPT ![w] =
                 IF (IF w \in Producers
                     THEN producer_predicate(buffer_, buffer_size_, running_)
                     ELSE consumer_predicate(buffer_, running_))
                 THEN "check" ELSE "wait"]
    /\ UNCHANGED <<buffer_size_, buffer_, buffer_mutex_, not_full_, not_empty_,
                   running_, items_produced_, items_consumed_, started, holding,
                   ctl, next_item, was_pushed, handed>>
    /\ UNCHANGED outside_producer_consumer

\* wait(lock): the mutex is released and the worker blocks, atomically
WorkerWait(w) ==
    /\ at[w] = "wait"
    /\ buffer_mutex_' = NoThread
    /\ IF w \in Producers
       THEN not_full_' = not_full_ \cup {w} /\ UNCHANGED not_empty_
       ELSE not_empty_' = not_empty_ \cup {w} /\ UNCHANGED not_full_
    /\ at' = [at EXCEPT ![w] = "blocked"]
    /\ UNCHANGED <<buffer_size_, buffer_, running_, items_produced_,
                   items_consumed_, started, holding, ctl, next_item, was_pushed,
                   handed>>
    /\ UNCHANGED outside_producer_consumer

\* a blocked worker may wake up without any notification
WorkerSpuriousWakeup(w) ==
    /\ w \in not_full_ \cup not_empty_
    /\ not_full_' = not_full_ \ {w}
    /\ not_empty_' = not_empty_ \ {w}
    /\ at' = [at EXCEPT ![w] = "relock"]
    /\ UNCHANGED <<buffer_size_, buffer_, buffer_mutex_, running_,
                   items_produced_, items_consumed_, started, holding, ctl,
                   next_item, was_pushed, handed>>
    /\ UNCHANGED outside_producer_consumer

\* producer_worker after the wait: it leaves if stopped, and otherwise pushes
\* the item, counts it and releases the mutex
ProducerPush(p) ==
    /\ p \in Producers /\ at[p] = "check"
    /\ buffer_mutex_' = NoThread
    /\ IF ~running_
       THEN /\ at' = [at EXCEPT ![p] = "exited"]
            /\ UNCHANGED <<buffer_, items_produced_, was_pushed>>
       ELSE /\ buffer_' = Append(buffer_, holding[p])
            /\ items_produced_' = items_produced_ + 1
            /\ was_pushed' = was_pushed \cup {holding[p]}
            /\ at' = [at EXCEPT ![p] = "notify"]
    /\ holding' = [holding EXCEPT ![p] = NoArg]
    /\ UNCHANGED <<buffer_size_, not_full_, not_empty_, running_,
                   items_consumed_, started, ctl, next_item, handed>>
    /\ UNCHANGED outside_producer_consumer

\* producer_worker: not_empty_.notify_one(), and back to the loop condition
ProducerNotify(p) ==
    /\ p \in Producers /\ at[p] = "notify"
    /\ \E woken \in notify_one(not_empty_) :
           /\ not_empty_' = not_empty_ \ woken
           /\ Go(p, "loop", woken)
    /\ UNCHANGED <<buffer_size_, buffer_, buffer_mutex_, not_full_, running_,
                   items_produced_, items_consumed_, started, holding, ctl,
                   next_item, was_pushed, handed>>
    /\ UNCHANGED outside_producer_consumer

\* consumer_worker after the wait: it leaves if stopped and the buffer is
\* empty, and otherwise takes the front item; either way it unlocks
ConsumerPop(c) ==
    /\ c \in Consumers /\ at[c] = "check"
    /\ buffer_mutex_' = NoThread
    /\ IF consumer_exits(buffer_, running_)
       THEN /\ at' = [at EXCEPT ![c] = "exited"]
            /\ UNCHANGED <<buffer_, holding>>
       ELSE /\ holding' = [holding EXCEPT ![c] = Head(buffer_)]
            /\ buffer_' = Tail(buffer_)
            /\ at' = [at EXCEPT ![c] = "consume"]
    /\ UNCHANGED <<buffer_size_, not_full_, not_empty_, running_,
                   items_produced_, items_consumed_, started, ctl, next_item,
                   was_pushed, handed>>
    /\ UNCHANGED outside_producer_consumer

\* consumer_worker: items_consumed_.fetch_add(1); consumer_func(item)
ConsumerConsume(c) ==
    /\ c \in Consumers /\ at[c] = "consume"
    /\ items_consumed_' = items_consumed_ + 1
    /\ handed' = [handed EXCEPT ![holding[c]] = @ + 1]
    /\ holding' = [holding EXCEPT ![c] = NoArg]
    /\ at' = [at EXCEPT ![c] = "notify"]
    /\ UNCHANGED <<buffer_size_, buffer_, buffer_mutex_, not_full_, not_empty_,
                   running_, items_produced_, started, ctl, next_item,
                   was_pushed>>
    /\ UNCHANGED outside_producer_consumer

\* consumer_worker: not_full_.notify_one(), and round the loop
ConsumerNotify(c) ==
    /\ c \in Consumers /\ at[c] = "notify"
    /\ \E woken \in notify_one(not_full_) :
           /\ not_full_' = not_full_ \ woken
           /\ Go(c, "lock", woken)
    /\ UNCHANGED <<buffer_size_, buffer_, buffer_mutex_, not_empty_, running_,
                   items_produced_, items_consumed_, started, holding, ctl,
                   next_item, was_pushed, handed>>
    /\ UNCHANGED outside_producer_consumer

\* stop(): running_ = false
StopStore ==
    /\ ctl = "started"
    /\ running_' = FALSE
    /\ ctl' = "notify_full"
    /\ UNCHANGED <<buffer_size_, buffer_, buffer_mutex_, not_full_, not_empty_,
                   items_produced_, items_consumed_, started, at, holding,
                   next_item, was_pushed, handed>>
    /\ UNCHANGED outside_producer_consumer

\* stop(): not_full_.notify_all()
StopNotifyFull ==
    /\ ctl = "notify_full"
    /\ not_full_' = not_full_ \ notify_all(not_full_)
    /\ at' = [w \in Workers |->
                 IF w \in notify_all(not_full_) THEN "relock" ELSE at[w]]
    /\ ctl' = "join_producers"
    /\ UNCHANGED <<buffer_size_, buffer_, buffer_mutex_, not_empty_, running_,
                   items_produced_, items_consumed_, started, holding, next_item,
                   was_pushed, handed>>
    /\ UNCHANGED outside_producer_consumer

\* stop(): every producer thread is joined, then not_empty_.notify_all()
StopJoinProducers ==
    /\ ctl = "join_producers"
    /\ \A p \in started \cap Producers : at[p] = "exited"
    /\ not_empty_' = not_empty_ \ notify_all(not_empty_)
    /\ at' = [w \in Workers |->
                 IF w \in notify_all(not_empty_) THEN "relock" ELSE at[w]]
    /\ ctl' = "join_consumers"
    /\ UNCHANGED <<buffer_size_, buffer_, buffer_mutex_, not_full_, running_,
                   items_produced_, items_consumed_, started, holding, next_item,
                   was_pushed, handed>>
    /\ UNCHANGED outside_producer_consumer

\* stop(): every consumer thread is joined, and stop() returns
StopJoinConsumers ==
    /\ ctl = "join_consumers"
    /\ \A c \in started \cap Consumers : at[c] = "exited"
    /\ ctl' = "stopped"
    /\ UNCHANGED <<buffer_size_, buffer_, buffer_mutex_, not_full_, not_empty_,
                   running_, items_produced_, items_consumed_, started, at,
                   holding, next_item, was_pushed, handed>>
    /\ UNCHANGED outside_producer_consumer

ProducerConsumerNext ==
    \/ StartWorkers
    \/ StopStore
    \/ StopNotifyFull
    \/ StopJoinProducers
    \/ StopJoinConsumers
    \/ \E w \in Workers :
           \/ ProducerLoop(w)
           \/ WorkerLock(w)
           \/ WorkerPredicate(w)
           \/ WorkerWait(w)
           \/ WorkerSpuriousWakeup(w)
           \/ ProducerPush(w)
           \/ ProducerNotify(w)
           \/ ConsumerPop(w)
           \/ ConsumerConsume(w)
           \/ ConsumerNotify(w)

\* a ProducerConsumer of any buffer size, next to a cache and a queue nobody
\* calls
InitProducerConsumer ==
    /\ Constructed(1)
    /\ Quiet
    /\ \E buffer_size \in 0..MaxBufferSize : ProducerConsumerInit(buffer_size)
    /\ ReadWriteLockInit
    /\ ResourcePoolInit(1)
    /\ DiningPhilosophersInit(2, "Think")

SpecProducerConsumer == InitProducerConsumer /\ [][ProducerConsumerNext]_all_vars

\* ---- ReadWriteLock ----

\* faulty variant of read_predicate: a reader also waits for other readers
read_predicate_exclusive(n, w) == n < 1 /\ w = FALSE

\* the predicate lock_read waits for on can_read
read_predicate(n, w) == w = FALSE

\* faulty variant of write_predicate: a writer only waits for other writers
write_predicate_ignores_readers(n, w) == ~w

\* the predicate lock_write waits for on can_write
write_predicate(n, w) == n < 1 /\ ~w

\* thread t goes on to position next, and the threads in woken leave their
\* wait and go for the mutex again
RwGo(t, next, woken) ==
    rw_pc' = [u \in Lockers |->
                 IF u = t THEN next
                 ELSE IF u \in woken THEN "relock"
                 ELSE rw_pc[u]]

\* std::unique_lock<std::mutex> lock(mutex_) at the top of lock_read or
\* lock_write, and the wait taking the mutex again after a wakeup
RwLock(t, o) ==
    /\ \/ rw_pc[t] = "idle" /\ rw_op' = [rw_op EXCEPT ![t] = o]
       \/ rw_pc[t] = "relock" /\ rw_op[t] = o /\ UNCHANGED rw_op
    /\ rw_mutex_ = NoThread
    /\ rw_mutex_' = t
    /\ rw_pc' = [rw_pc EXCEPT ![t] = "pred"]
    /\ UNCHANGED <<readers, writing, can_read, can_write>>
    /\ UNCHANGED outside_read_write_lock

\* lock_read after taking the mutex: the reader is counted if the predicate
\* holds, and is about to block otherwise
lock_read(t) ==
    /\ rw_pc[t] = "pred" /\ rw_op[t] = "lock_read"
    /\ IF read_predicate(readers, writing)
       THEN /\ readers' = readers + 1
            /\ rw_mutex_' = NoThread
            /\ rw_pc' = [rw_pc EXCEPT ![t] = "reading"]
       ELSE /\ rw_pc' = [rw_pc EXCEPT ![t] = "wait"]
            /\ UNCHANGED <<readers, rw_mutex_>>
    /\ UNCHANGED <<writing, can_read, can_write, rw_op>>
    /\ UNCHANGED outside_read_write_lock

\* lock_write after taking the mutex
lock_write(t) ==
    /\ rw_pc[t] = "pred" /\ rw_op[t] = "lock_write"
    /\ IF write_predicate(readers, writing)
       THEN /\ writing' = TRUE
            /\ rw_mutex_' = NoThread
            /\ rw_pc' = [rw_pc EXCEPT ![t] = "writing"]
       ELSE /\ rw_pc' = [rw_pc EXCEPT ![t] = "wait"]
            /\ UNCHANGED <<writing, rw_mutex_>>
    /\ UNCHANGED <<readers, can_read, can_write, rw_op>>
    /\ UNCHANGED outside_read_write_lock

\* wait(lock): the mutex is released and the thread blocks, atomically
RwWait(t) ==
    /\ rw_pc[t] = "wait"
    /\ rw_mutex_' = NoThread
    /\ IF rw_op[t] = "lock_read"
       THEN can_read' = can_read \cup {t} /\ UNCHANGED can_write
       ELSE can_write' = can_write \cup {t} /\ UNCHANGED can_read
    /\ rw_pc' = [rw_pc EXCEPT ![t] = "blocked"]
    /\ UNCHANGED <<readers, writing, rw_op>>
    /\ UNCHANGED outside_read_write_lock

\* a blocked thread may wake up without any notification
RwSpuriousWakeup(t) ==
    /\ t \in can_read \cup can_write
    /\ can_read' = can_read \ {t}
    /\ can_write' = can_write \ {t}
    /\ rw_pc' = [rw_pc EXCEPT ![t] = "relock"]
    /\ UNCHANGED <<readers, writing, rw_mutex_, rw_op>>
    /\ UNCHANGED outside_read_write_lock

\* unlock_read, by a thread that holds the read lock
unlock_read(t) ==
    /\ rw_pc[t] = "reading"
    /\ rw_mutex_ = NoThread
    /\ readers' = readers - 1
    /\ \E woken \in (IF readers' < 1 THEN notify_one(can_write) ELSE {{}}) :
           /\ can_write' = can_write \ woken
           /\ RwGo(t, "idle", woken)
    /\ rw_op' = [rw_op EXCEPT ![t] = "none"]
    /\ UNCHANGED <<writing, rw_mutex_, can_read>>
    /\ UNCHANGED outside_read_write_lock

\* unlock_write, by the thread that holds the write lock
unlock_write(t) ==
    /\ rw_pc[t] = "writing"
    /\ rw_mutex_ = NoThread
    /\ writing' = FALSE
    /\ can_read' = can_read \ notify_all(can_read)
    /\ can_write' = can_write \ notify_all(can_write)
    /\ RwGo(t, "idle", notify_all(can_read) \cup notify_all(can_write))
    /\ rw_op' = [rw_op EXCEPT ![t] = "none"]
    /\ UNCHANGED <<readers, rw_mutex_>>
    /\ UNCHANGED outside_read_write_lock

ReadWriteLockNext ==
    \E t \in Lockers :
        \/ RwLock(t, "lock_read")
        \/ RwLock(t, "lock_write")
        \/ lock_read(t)
        \/ lock_write(t)
        \/ RwWait(t)
        \/ RwSpuriousWakeup(t)
        \/ unlock_read(t)
        \/ unlock_write(t)

\* threads that lock and unlock one ReadWriteLock, each unlocking only what it
\* locked
SpecReadWriteLock == InitSmallest /\ [][ReadWriteLockNext]_all_vars

\* a woken thread takes the mutex again
RwRelock(t) ==
    /\ rw_pc[t] = "relock"
    /\ RwLock(t, "lock_read") \/ RwLock(t, "lock_write")

\* the lock under fair scheduling: a thread that waits for mutex_ gets it at
\* one of the times it is free, every thread that holds the lock releases it,
\* and every thread takes its other steps when it can; nothing promises a
\* spurious wakeup, and calling lock_read or lock_write is up to the threads
SpecReadWriteLockFair ==
    /\ InitSmallest
    /\ [][ReadWriteLockNext]_all_vars
    /\ \A t \in Lockers :
           /\ SF_all_vars(RwRelock(t))
           /\ SF_all_vars(unlock_read(t))
           /\ SF_all_vars(unlock_write(t))
           /\ WF_all_vars(lock_read(t))
           /\ WF_all_vars(lock_write(t))
           /\ WF_all_vars(RwWait(t))

\* ---- ResourcePool ----

\* size_t subtraction wraps around
SizeSub(a, b) == IF a >= b THEN a - b ELSE SizeMax - (b - a) + 1

\* faulty variant of take_front: the front resource is handed out and left in
\* the pool
take_front_keeps_it(pool) ==
    IF pool # <<>>
    THEN [pool |-> pool, resource |-> Head(pool)]
    ELSE [pool |-> pool, resource |-> NULL]

\* the guarded block of acquire and try_acquire: the front resource is taken
\* out of the pool, or the result stays null
take_front(pool) ==
    IF pool # <<>>
    THEN [pool |-> Tail(pool), resource |-> Head(pool)]
    ELSE [pool |-> pool, resource |-> NULL]

\* faulty variant of fetch_add: the counter keeps its value
fetch_add_lost(n) == n

\* std::atomic<size_t>::fetch_add(1), on a counter far from the largest size_t
fetch_add(n) == n + 1

\* faulty variant of semaphore_release: the permit is not given back
semaphore_release_lost(n) == n

\* std::counting_semaphore::release
semaphore_release(n) == n + 1

\* the acquisitions that have been called and are not counted yet
AcquisitionsUnderWay ==
    Cardinality({t \in Holders : rp_pc[t] \in {"semaphore", "take", "count"}})

\* thread t goes to position next
RpGo(t, next) == rp_pc' = [rp_pc EXCEPT ![t] = next]

\* the call returns: the caller keeps the resource, if any, and the locals die
RpReturn(t) ==
    /\ RpGo(t, "idle")
    /\ held' = [held EXCEPT ![t] = @ \cup ({resource[t]} \ {NULL})]
    /\ rp_op' = [rp_op EXCEPT ![t] = "none"]
    /\ resource' = [resource EXCEPT ![t] = NULL]
    /\ loaded' = [loaded EXCEPT ![t] = <<>>]
    /\ current_usage' = [current_usage EXCEPT ![t] = 0]
    /\ current_peak' = [current_peak EXCEPT ![t] = 0]

\* a thread calls acquire() or try_acquire(timeout)
AcquireCall(t, o) ==
    /\ rp_pc[t] = "idle"
    /\ total_acquisitions_ + AcquisitionsUnderWay < MaxAcquisitions
    /\ RpGo(t, "semaphore")
    /\ rp_op' = [rp_op EXCEPT ![t] = o]
    /\ UNCHANGED <<pool_size, available_resources_, resource_pool_,
                   total_acquisitions_, total_releases_, peak_usage_, held,
                   resource, loaded, current_usage, current_peak>>
    /\ UNCHANGED outside_resource_pool

\* available_resources_.acquire() / try_acquire_for(timeout) getting a permit
AcquirePermit(t) ==
    /\ rp_pc[t] = "semaphore"
    /\ available_resources_ > 0
    /\ available_resources_' = available_resources_ - 1
    /\ RpGo(t, "take")
    /\ UNCHANGED <<pool_size, resource_pool_, total_acquisitions_,
                   total_releases_, peak_usage_, held, rp_op, resource, loaded,
                   current_usage, current_peak>>
    /\ UNCHANGED outside_resource_pool

\* try_acquire_for(timeout) timing out: try_acquire returns nullptr
TryAcquireTimeout(t) ==
    /\ rp_pc[t] = "semaphore" /\ rp_op[t] = "try_acquire"
    /\ RpReturn(t)
    /\ UNCHANGED <<pool_size, available_resources_, resource_pool_,
                   total_acquisitions_, total_releases_, peak_usage_>>
    /\ UNCHANGED outside_resource_pool

\* the block under pool_mutex_ in acquire and try_acquire
TakeResource(t) ==
    /\ rp_pc[t] = "take"
    /\ LET out == take_front(resource_pool_)
       IN  /\ resource_pool_' = out.pool
           /\ resource' = [resource EXCEPT ![t] = out.resource]
    /\ RpGo(t, "count")
    /\ UNCHANGED <<pool_size, available_resources_, total_acquisitions_,
                   total_releases_, peak_usage_, held, rp_op, loaded,
                   current_usage, current_peak>>
    /\ UNCHANGED outside_resource_pool

\* total_acquisitions_.fetch_add(1); try_acquire returns after it
CountAcquisition(t) ==
    /\ rp_pc[t] = "count"
    /\ total_acquisitions_' = fetch_add(total_acquisitions_)
    /\ IF rp_op[t] = "try_acquire"
       THEN RpReturn(t)
       ELSE /\ RpGo(t, "load")
            /\ UNCHANGED <<held, rp_op, resource, loaded, current_usage,
                           current_peak>>
    /\ UNCHANGED <<pool_size, available_resources_, resource_pool_,
                   total_releases_, peak_usage_>>
    /\ UNCHANGED outside_resource_pool

\* total_acquisitions_.load() - total_releases_.load(): the first of the two
\* loads, in either order
LoadFirst(t) ==
    /\ rp_pc[t] = "load" /\ loaded[t] = <<>>
    /\ \/ loaded' = [loaded EXCEPT ![t] = <<"acquisitions", total_acquisitions_>>]
       \/ loaded' = [loaded EXCEPT ![t] = <<"releases", total_releases_>>]
    /\ UNCHANGED <<pool_size, available_resources_, resource_pool_,
                   total_acquisitions_, total_releases_, peak_usage_, held,
                   rp_pc, rp_op, resource, current_usage, current_peak>>
    /\ UNCHANGED outside_resource_pool

\* the second load, the subtraction, and current_peak = peak_usage_.load()
LoadSecond(t) ==
    /\ rp_pc[t] = "load" /\ loaded[t] # <<>>
    /\ current_usage' = [current_usage EXCEPT ![t] =
                            IF loaded[t][1] = "acquisitions"
                            THEN SizeSub(loaded[t][2], total_releases_)
                            ELSE SizeSub(total_acquisitions_, loaded[t][2])]
    /\ current_peak' = [current_peak EXCEPT ![t] = peak_usage_]
    /\ RpGo(t, "peak")
    /\ UNCHANGED <<pool_size, available_resources_, resource_pool_,
                   total_acquisitions_, total_releases_, peak_usage_, held,
                   rp_op, resource, loaded>>
    /\ UNCHANGED outside_resource_pool

\* one round of the loop that raises peak_usage_, and the return of acquire
UpdatePeak(t) ==
    /\ rp_pc[t] = "peak"
    /\ IF current_usage[t] > current_peak[t]
       THEN IF peak_usage_ = current_peak[t]
            THEN /\ peak_usage_' = current_usage[t]
                 /\ RpReturn(t)
            ELSE /\ current_peak' = [current_peak EXCEPT ![t] = peak_usage_]
                 /\ UNCHANGED <<peak_usage_, held, rp_pc, rp_op, resource, loaded,
                                current_usage>>
       ELSE /\ RpReturn(t)
            /\ UNCHANGED peak_usage_
    /\ UNCHANGED <<pool_size, available_resources_, resource_pool_,
                   total_acquisitions_, total_releases_>>
    /\ UNCHANGED outside_resource_pool

\* release(resource), by a thread that holds the resource: the block under
\* pool_mutex_
ReleasePush(t) ==
    /\ rp_pc[t] = "idle"
    /\ \E r \in held[t] :
           /\ resource_pool_' = Append(resource_pool_, r)
           /\ held' = [held EXCEPT ![t] = @ \ {r}]
    /\ RpGo(t, "count_release")
    /\ rp_op' = [rp_op EXCEPT ![t] = "release"]
    /\ UNCHANGED <<pool_size, available_resources_, total_acquisitions_,
                   total_releases_, peak_usage_, resource, loaded, current_usage,
                   current_peak>>
    /\ UNCHANGED outside_resource_pool

\* release: total_releases_.fetch_add(1)
CountRelease(t) ==
    /\ rp_pc[t] = "count_release"
    /\ total_releases_' = fetch_add(total_releases_)
    /\ RpGo(t, "post")
    /\ UNCHANGED <<pool_size, available_resources_, resource_pool_,
                   total_acquisitions_, peak_usage_, held, rp_op, resource,
                   loaded, current_usage, current_peak>>
    /\ UNCHANGED outside_resource_pool

\* release: available_resources_.release(), and the return
ReleasePermit(t) ==
    /\ rp_pc[t] = "post"
    /\ available_resources_' = semaphore_release(available_resources_)
    /\ RpReturn(t)
    /\ UNCHANGED <<pool_size, resource_pool_, total_acquisitions_,
                   total_releases_, peak_usage_>>
    /\ UNCHANGED outside_resource_pool

ResourcePoolNext ==
    \E t \in Holders :
        \/ AcquireCall(t, "acquire")
        \/ AcquireCall(t, "try_acquire")
        \/ AcquirePermit(t)
        \/ TryAcquireTimeout(t)
        \/ TakeResource(t)
        \/ CountAcquisition(t)
        \/ LoadFirst(t)
        \/ LoadSecond(t)
        \/ UpdatePeak(t)
        \/ ReleasePush(t)
        \/ CountRelease(t)
        \/ ReleasePermit(t)

\* a pool of any size, next to the other components nobody uses
InitResourcePool ==
    /\ Constructed(1)
    /\ Quiet
    /\ ProducerConsumerInit(1)
    /\ ReadWriteLockInit
    /\ DiningPhilosophersInit(2, "Think")
    /\ \E n \in 0..MaxPoolSize : ResourcePoolInit(n)

SpecResourcePool == InitResourcePool /\ [][ResourcePoolNext]_all_vars

\* the steps of a call on the pool that follow the call itself, but for the
\* timeout of try_acquire: a scheduled thread takes them when it can
PoolRun(t) ==
    \/ AcquirePermit(t)
    \/ TakeResource(t)
    \/ CountAcquisition(t)
    \/ LoadFirst(t)
    \/ LoadSecond(t)
    \/ UpdatePeak(t)
    \/ CountRelease(t)
    \/ ReleasePermit(t)

\* the pool under fair scheduling of the threads; whether and when a thread
\* calls acquire, try_acquire or release is up to the thread
SpecResourcePoolFair ==
    /\ InitResourcePool
    /\ [][ResourcePoolNext]_all_vars
    /\ \A t \in Holders : WF_all_vars(PoolRun(t))

\* ---- DiningPhilosophers ----

\* philosopher p, of a process that has not been terminated, goes to position
\* next
DpGo(p, next) ==
    /\ dp_ctl # "terminated"
    /\ dp_pc' = [dp_pc EXCEPT ![p] = next]

\* states_[p].store(s), after which the philosopher is at position next
StoreState(p, s, next) ==
    /\ states_' = [states_ EXCEPT ![p] = s]
    /\ DpGo(p, next)
    /\ UNCHANGED <<num_philosophers_, dining_running_, forks_, eat_counts_,
                   dp_ctl, scan, detected>>
    /\ UNCHANGED outside_dining_philosophers

\* start_dining(): running_.exchange(true), and one thread per philosopher
start_dining ==
    /\ dp_ctl = "constructed"
    /\ dining_running_' = TRUE
    /\ dp_pc' = [p \in Seats(num_philosophers_) |-> "loop"]
    /\ dp_ctl' = "dining"
    /\ UNCHANGED <<num_philosophers_, forks_, eat_counts_, states_, scan, detected>>
    /\ UNCHANGED outside_dining_philosophers

\* while (running_.load()): another round, or the end of the routine
LoopTest(p) ==
    /\ dp_pc[p] = "loop"
    /\ IF dining_running_
       THEN DpGo(p, "think")
       ELSE DpGo(p, "exited")
    /\ UNCHANGED <<num_philosophers_, dining_running_, forks_, eat_counts_,
                   states_, dp_ctl, scan, detected>>
    /\ UNCHANGED outside_dining_philosophers

\* states_[philosopher_id].store(State::Think)
Think(p) == dp_pc[p] = "think" /\ StoreState(p, "Think", "hungry")

\* states_[philosopher_id].store(State::WaitLeft)
WaitLeft(p) == dp_pc[p] = "hungry" /\ StoreState(p, "WaitLeft", "left")

\* std::lock_guard of forks_[f], after which the philosopher is at position next
LockFork(p, f, next) ==
    /\ forks_[f] = NoPhilosopher
    /\ forks_' = [forks_ EXCEPT ![f] = p]
    /\ DpGo(p, next)
    /\ UNCHANGED <<num_philosophers_, dining_running_, eat_counts_, states_,
                   dp_ctl, scan, detected>>
    /\ UNCHANGED outside_dining_philosophers

\* std::lock_guard<std::mutex> left_fork(forks_[minfork(...)])
LockLeft(p) ==
    /\ dp_pc[p] = "left"
    /\ LockFork(p, minfork(p, num_philosophers_), "has_left")

\* states_[philosopher_id].store(State::WaitRight)
WaitRight(p) == dp_pc[p] = "has_left" /\ StoreState(p, "WaitRight", "right")

\* std::lock_guard<std::mutex> right_fork(forks_[maxfork(...)])
LockRight(p) ==
    /\ dp_pc[p] = "right"
    /\ LockFork(p, maxfork(p, num_philosophers_), "has_both")

\* states_[philosopher_id].store(State::Eat)
Eat(p) == dp_pc[p] = "has_both" /\ StoreState(p, "Eat", "eating")

\* eat_counts_[philosopher_id].fetch_add(1); the model counts up to MaxEats and
\* keeps any larger count as MaxEats
CountEat(p) ==
    /\ dp_pc[p] = "eating"
    /\ eat_counts_' = [eat_counts_ EXCEPT ![p] = IF @ < MaxEats THEN @ + 1 ELSE @]
    /\ DpGo(p, "done")
    /\ UNCHANGED <<num_philosophers_, dining_running_, forks_, states_, dp_ctl,
                   scan, detected>>
    /\ UNCHANGED outside_dining_philosophers

\* the end of the block: right_fork, then left_fork, is unlocked
PutDown(p) ==
    /\ dp_pc[p] = "done"
    /\ forks_' = unlock_forks(forks_, p)
    /\ DpGo(p, "loop")
    /\ UNCHANGED <<num_philosophers_, dining_running_, eat_counts_, states_,
                   dp_ctl, scan, detected>>
    /\ UNCHANGED outside_dining_philosophers

\* is_deadlocked() called between start_dining() and stop_dining():
\* State state = states_[0].load()
DetectCall ==
    /\ dp_ctl = "dining"
    /\ scan.caller = "none"
    /\ scan' = [caller |-> "test", state |-> states_[0], next |-> 0]
    /\ UNCHANGED <<num_philosophers_, dining_running_, forks_, eat_counts_,
                   states_, dp_pc, dp_ctl, detected>>
    /\ UNCHANGED outside_dining_philosophers

\* stop_dining(): running_ = false, and the first load of is_deadlocked()
StopDining ==
    /\ dp_ctl = "dining"
    /\ scan.caller = "none"
    /\ dining_running_' = FALSE
    /\ dp_ctl' = "stopping"
    /\ scan' = [caller |-> "stop", state |-> states_[0], next |-> 0]
    /\ UNCHANGED <<num_philosophers_, forks_, eat_counts_, states_, dp_pc,
                   detected>>
    /\ UNCHANGED outside_dining_philosophers

\* is_deadlocked() has returned res to its caller: the test goes on, and
\* stop_dining() throws with no exception to rethrow, or goes on to join
DetectReturn(res) ==
    /\ scan' = NoScan
    /\ dp_ctl' = IF scan.caller = "stop"
                 THEN IF res THEN "terminated" ELSE "joining"
                 ELSE dp_ctl
    /\ detected' = res

\* is_deadlocked(): the test of state, and one load of std::all_of
Detect ==
    /\ scan.caller # "none"
    /\ IF scan.state \in {"Eat", "Think"}
       THEN DetectReturn(FALSE)
       ELSE IF scan.next = num_philosophers_
            THEN DetectReturn(TRUE)
            ELSE IF states_[scan.next] # scan.state
                 THEN DetectReturn(FALSE)
                 ELSE /\ scan' = [scan EXCEPT !.next = @ + 1]
                      /\ UNCHANGED <<dp_ctl, detected>>
    /\ UNCHANGED <<num_philosophers_, dining_running_, forks_, eat_counts_,
                   states_, dp_pc>>
    /\ UNCHANGED outside_dining_philosophers

\* stop_dining(): every thread is joined, and threads_ is cleared
JoinAll ==
    /\ dp_ctl = "joining"
    /\ \A p \in Seats(num_philosophers_) : dp_pc[p] = "exited"
    /\ dp_ctl' = "stopped"
    /\ UNCHANGED <<num_philosophers_, dining_running_, forks_, eat_counts_,
                   states_, dp_pc, scan, detected>>
    /\ UNCHANGED outside_dining_philosophers

DiningPhilosophersNext ==
    \/ start_dining
    \/ \E p \in Seats(num_philosophers_) :
           \/ LoopTest(p)
           \/ Think(p)
           \/ WaitLeft(p)
           \/ LockLeft(p)
           \/ WaitRight(p)
           \/ LockRight(p)
           \/ Eat(p)
           \/ CountEat(p)
           \/ PutDown(p)
    \/ DetectCall
    \/ StopDining
    \/ Detect
    \/ JoinAll

\* a table of two or more philosophers, whatever the zero enumerator of State
\* is, next to the other components nobody uses
InitDiningPhilosophers ==
    /\ Constructed(1)
    /\ Quiet
    /\ ProducerConsumerInit(1)
    /\ ReadWriteLockInit
    /\ ResourcePoolInit(1)
    /\ \E n \in 2..MaxPhilosophers, zero \in States :
           DiningPhilosophersInit(n, zero)

SpecDiningPhilosophers == InitDiningPhilosophers /\ [][DiningPhilosophersNext]_all_vars

\* the steps of a philosopher that nothing holds up
DiningRun(p) ==
    \/ LoopTest(p)
    \/ Think(p)
    \/ WaitLeft(p)
    \/ WaitRight(p)
    \/ Eat(p)
    \/ CountEat(p)
    \/ PutDown(p)

\* a table of two, whatever the zero enumerator of State is
InitSmallestTable ==
    /\ Constructed(1)
    /\ Quiet
    /\ ProducerConsumerInit(1)
    /\ ReadWriteLockInit
    /\ ResourcePoolInit(1)
    /\ \E zero \in States : DiningPhilosophersInit(2, zero)

\* the table under fair scheduling: a philosopher that is waiting for a fork
\* which is free again and again gets it, and every thread takes its other
\* steps when it can; when is_deadlocked() and stop_dining() are called is up
\* to the caller
SpecDiningPhilosophersFair ==
    /\ InitSmallestTable
    /\ [][DiningPhilosophersNext]_all_vars
    /\ \A p \in Seats(2) :
           /\ SF_all_vars(LockLeft(p))
           /\ SF_all_vars(LockRight(p))
           /\ WF_all_vars(DiningRun(p))
    /\ WF_all_vars(Detect)
    /\ WF_all_vars(JoinAll)

\* ---- views of the structure, for the properties below ----

\* the nodes met from node n on by following next_, at most fuel of them
RECURSIVE Walk(_, _, _)
Walk(s, n, fuel) ==
    IF n = NULL \/ fuel = 0 \/ n \notin DOMAIN s.heap THEN <<>>
    ELSE <<n>> \o Walk(s, s.heap[n].next_, fuel - 1)

\* the chain from head_; one step more than there are nodes, so that a cycle
\* shows as a repeated node
Chain(s) == Walk(s, s.head_, Cardinality(DOMAIN s.heap) + 1)
ChainKeys(s) == [i \in 1..Len(Chain(s)) |-> s.heap[Chain(s)[i]].key_]
Occurrences(seq, x) == Cardinality({i \in 1..Len(seq) : seq[i] = x})
Without(seq, x) == SelectSeq(seq, LAMBDA y : y # x)
StoredValues(s) == [k \in DOMAIN s.cache_ |-> s.heap[s.cache_[k]].value_]
MembersOf(e) == [head_ |-> e.head_, tail_ |-> e.tail_, cache_ |-> e.cache_,
                 heap |-> e.heap]

\* no call is between two steps of its body
AtRest == \A t \in Threads : pc[t] # "evict"
\* thread t has finished the body of operation o and is about to return
Returning(t, o) == pc[t] = "unlock" /\ op[t] = o

\* C1 (I1, I2): after every completed get, put, remove or clear the index has
\* as many entries as the chain from head_ has nodes, and every index key k
\* maps to a node that is exactly once in the chain and stores key k.
IndexMatchesChain ==
    AtRest =>
        /\ Cardinality(DOMAIN cache_) = Len(Chain(Members))
        /\ \A k \in DOMAIN cache_ :
              /\ cache_[k] \in DOMAIN heap
              /\ heap[cache_[k]].key_ = k
              /\ Occurrences(Chain(Members), cache_[k]) = 1

\* a remove has taken one of three entries out and two are left
IndexMatchesChainWitness ==
    \E t \in Threads :
        /\ Returning(t, "remove")
        /\ ret[t].flag
        /\ Cardinality(DOMAIN entry[t].cache_) = 3
        /\ Cardinality(DOMAIN cache_) = 2
        /\ Len(Chain(Members)) = 2

\* C2 (I3): after every completed operation the chain is well formed: no
\* cycle, head_ without prev_, tail_ without next_, the walk from head_ ends
\* at tail_, prev_ is the inverse of next_, and head_ and tail_ are null
\* exactly when the cache is empty.
ChainWellFormed ==
    AtRest =>
        LET chain == Chain(Members)
        IN  /\ \A n \in DOMAIN heap : Occurrences(chain, n) <= 1
            /\ head_ # NULL => head_ \in DOMAIN heap /\ heap[head_].prev_ = NULL
            /\ tail_ # NULL => tail_ \in DOMAIN heap /\ heap[tail_].next_ = NULL
            /\ chain # <<>> => chain[Len(chain)] = tail_
            /\ \A n \in DOMAIN heap :
                  /\ heap[n].next_ # NULL =>
                        /\ heap[n].next_ \in DOMAIN heap
                        /\ heap[heap[n].next_].prev_ = n
                  /\ heap[n].prev_ # NULL =>
                        /\ heap[n].prev_ \in DOMAIN heap
                        /\ heap[heap[n].prev_].next_ = n
            /\ (head_ = NULL) <=> (DOMAIN cache_ = {})
            /\ (tail_ = NULL) <=> (DOMAIN cache_ = {})

\* a get has moved the tail of a chain of three to the front
ChainWellFormedWitness ==
    \E t \in Threads :
        /\ Returning(t, "get")
        /\ Len(Chain(MembersOf(entry[t]))) = 3
        /\ entry[t].tail_ = head_

\* C3 (I4): size() never returns more than capacity_, and whenever a put has
\* returned or another thread can look at the cache (it holds the lock and is
\* about to run its body) there are at most capacity_ keys in the index.
CapacityBound ==
    /\ \A t \in Threads : Returning(t, "size") => ret[t].count <= capacity_
    /\ \A t \in Threads : Returning(t, "put") =>
            Cardinality(DOMAIN cache_) <= capacity_
    /\ (mutex_ = NoThread \/ \E t \in Threads : pc[t] = "body") =>
            Cardinality(DOMAIN cache_) <= capacity_

\* the index holds one key too many in the middle of a put while another
\* thread waits for the lock
CapacityBoundWitness ==
    \E t, u \in Threads :
        /\ pc[t] = "evict"
        /\ Cardinality(DOMAIN cache_) = capacity_ + 1
        /\ pc[u] = "lock"

\* C4: a put of a key that is not resident removes a key exactly when the
\* cache held capacity_ keys; the key removed is then the one resident key
\* touched longest ago, and all other resident keys and the new key are
\* there afterwards.
EvictsLeastRecentlyUsed ==
    \A t \in Threads :
        (Returning(t, "put") /\ key[t] \notin DOMAIN entry[t].cache_) =>
            LET before == DOMAIN entry[t].cache_
                after == DOMAIN cache_
                removed == before \ after
                by_touch == entry[t].touched
            IN  /\ (removed # {}) <=> (Cardinality(before) = capacity_)
                /\ removed # {} =>
                      /\ by_touch # <<>>
                      /\ removed = {by_touch[Len(by_touch)]}
                /\ after = (before \ removed) \cup {key[t]}

\* a put of a new key into a full cache of capacity two or more has returned
\* and one of the keys that were resident is gone
EvictsLeastRecentlyUsedWitness ==
    \E t \in Threads :
        /\ Returning(t, "put")
        /\ key[t] \notin DOMAIN entry[t].cache_
        /\ Cardinality(DOMAIN entry[t].cache_) = capacity_
        /\ capacity_ >= 2
        /\ Cardinality(DOMAIN entry[t].cache_ \ DOMAIN cache_) = 1

\* C5 (I5): after every completed operation the keys of the chain, head to
\* tail, are the resident keys in the order of their last touch, newest
\* first.
ChainInRecencyOrder ==
    AtRest => ChainKeys(Members) = touched

\* a put has updated the middle key of a chain of three, which is now the
\* most recently touched key
ChainInRecencyOrderWitness ==
    \E t \in Threads :
        /\ Returning(t, "put")
        /\ Len(entry[t].touched) = 3
        /\ entry[t].touched[2] = key[t]
        /\ touched[1] = key[t]

\* member function o run with arguments k and v on members s, alone
Alone(s, cap, o, k, v) ==
    CASE o = "get" -> get(s, k)
      [] o = "put" -> put(s, cap, k, v)
      [] o = "remove" -> remove(s, k)
      [] o = "size" -> size(s)
      [] o = "contains" -> contains(s, k)
      [] o = "clear" -> clear(s)

\* C6: at most one thread at a time is between the lock and the unlock of a
\* member function, so when a thread starts its body the members are as they
\* were when it took the lock, and when it returns the members and its
\* return value are those of its member function run alone on them: the
\* calls take effect one after the other, in the order of their locks.
Serialized ==
    /\ Cardinality({t \in Threads : pc[t] \in {"body", "evict", "unlock"}}) <= 1
    /\ \A t \in Threads :
          /\ pc[t] = "body" => Members = MembersOf(entry[t])
          /\ pc[t] = "unlock" =>
                LET alone == Alone(MembersOf(entry[t]), capacity_, op[t], key[t],
                                   value[t])
                IN  /\ ~alone.fault
                    /\ Members = Release(alone.s)
                    /\ ret[t] = alone.ret

\* a put is between its two steps, with one key too many in the index, and
\* another thread has called a member function and waits for the lock
SerializedWitness ==
    \E t, u \in Threads :
        /\ t # u
        /\ pc[t] = "evict"
        /\ Cardinality(DOMAIN cache_) > capacity_
        /\ pc[u] = "lock"
        /\ mutex_ = t

\* C7: a get of a resident key returns the value of the most recent put of
\* that key, makes the key the head of the chain, keeps the resident keys and
\* every stored value, and keeps the order of the other keys; so every get of
\* a resident key obtains a value.
GetHit ==
    \A t \in Threads :
        (Returning(t, "get") /\ key[t] \in DOMAIN entry[t].cache_) =>
            LET was == MembersOf(entry[t])
            IN  /\ last_put[key[t]] \in Values
                /\ ret[t].opt = <<last_put[key[t]]>>
                /\ head_ \in DOMAIN heap
                /\ heap[head_].key_ = key[t]
                /\ DOMAIN cache_ = DOMAIN was.cache_
                /\ StoredValues(Members) = StoredValues(was)
                /\ ChainKeys(Members) = <<key[t]>> \o Without(ChainKeys(was), key[t])

\* a get has hit the middle key of a chain of three
GetHitWitness ==
    \E t \in Threads :
        /\ Returning(t, "get")
        /\ Len(ChainKeys(MembersOf(entry[t]))) = 3
        /\ ChainKeys(MembersOf(entry[t]))[2] = key[t]
        /\ ret[t].opt # <<>>

\* C8: a put of a resident key evicts nothing, also in a full cache: the
\* resident keys and size() stay, a get of the key then returns the new
\* value, the key is the head, and the other keys keep their order and
\* values.
UpdateNeverEvicts ==
    \A t \in Threads :
        (Returning(t, "put") /\ key[t] \in DOMAIN entry[t].cache_) =>
            LET was == MembersOf(entry[t])
            IN  /\ DOMAIN cache_ = DOMAIN was.cache_
                /\ size(Members).ret.count = size(was).ret.count
                /\ get(Members, key[t]).ret.opt = <<value[t]>>
                /\ head_ \in DOMAIN heap
                /\ heap[head_].key_ = key[t]
                /\ ChainKeys(Members) = <<key[t]>> \o Without(ChainKeys(was), key[t])
                /\ \A k \in DOMAIN was.cache_ \ {key[t]} :
                      StoredValues(Members)[k] = StoredValues(was)[k]

\* a put has given a new value to the tail key of a full cache
UpdateNeverEvictsWitness ==
    \E t \in Threads :
        /\ Returning(t, "put")
        /\ key[t] \in DOMAIN entry[t].cache_
        /\ Cardinality(DOMAIN entry[t].cache_) = capacity_
        /\ capacity_ >= 2
        /\ entry[t].heap[entry[t].tail_].key_ = key[t]
        /\ StoredValues(MembersOf(entry[t]))[key[t]] # value[t]

\* C9: a get of a key that is not resident, also on a new or cleared cache,
\* returns nullopt and leaves head_, tail_, the index and every node as they
\* were.
GetMiss ==
    \A t \in Threads :
        (Returning(t, "get") /\ key[t] \notin DOMAIN entry[t].cache_) =>
            /\ ret[t].opt = <<>>
            /\ Members = MembersOf(entry[t])

\* a get has missed in a cache that holds two other keys
GetMissWitness ==
    \E t \in Threads :
        /\ Returning(t, "get")
        /\ key[t] \notin DOMAIN entry[t].cache_
        /\ Cardinality(DOMAIN entry[t].cache_) = 2
        /\ ret[t].opt = <<>>

RemoveMiss ==
    \A t \in Threads :
        (Returning(t, "remove") /\ key[t] \notin DOMAIN entry[t].cache_) =>
            /\ ~ret[t].flag
            /\ Members = MembersOf(entry[t])
            /\ touched = entry[t].touched

\* a remove has missed in a cache that holds the two other keys
RemoveMissWitness ==
    \E t \in Threads :
        /\ Returning(t, "remove")
        /\ key[t] \notin DOMAIN entry[t].cache_
        /\ Cardinality(DOMAIN entry[t].cache_) = 2
        /\ ~ret[t].flag

\* the members of a cache that was just constructed
FreshMembers == [head_ |-> NULL, tail_ |-> NULL, cache_ |-> EmptyMap,
                 heap |-> EmptyMap]

\* C12: after clear() size() is 0, head_ and tail_ are null, get is empty and
\* contains is false for every key, and the members are those of a newly
\* constructed cache (no node is left), so with capacity_ unchanged the cache
\* goes on as a new one would.
ClearResets ==
    \A t \in Threads :
        Returning(t, "clear") =>
            /\ size(Members).ret.count = 0
            /\ head_ = NULL
            /\ tail_ = NULL
            /\ \A k \in Keys :
                  /\ get(Members, k).ret.opt = <<>>
                  /\ ~contains(Members, k).ret.flag
            /\ Members = FreshMembers
            /\ touched = <<>>

\* a clear has emptied a cache of three entries
ClearResetsWitness ==
    \E t \in Threads :
        /\ Returning(t, "clear")
        /\ Cardinality(DOMAIN entry[t].cache_) = 3
        /\ Len(Chain(MembersOf(entry[t]))) = 3

\* C16: contains(k) and size() change nothing: head_, tail_, the index and
\* every node are as before, and so is the order in which keys will be
\* evicted; contains(k) is true exactly when k is resident and size() is the
\* number of resident keys.
QueriesArePure ==
    \A t \in Threads :
        /\ (Returning(t, "size") \/ Returning(t, "contains")) =>
              /\ Members = MembersOf(entry[t])
              /\ touched = entry[t].touched
              /\ ChainKeys(Members) = ChainKeys(MembersOf(entry[t]))
        /\ Returning(t, "contains") =>
              (ret[t].flag <=> key[t] \in DOMAIN entry[t].cache_)
        /\ Returning(t, "size") =>
              /\ ret[t].count = Cardinality(DOMAIN entry[t].cache_)
              /\ ret[t].count = Len(Chain(MembersOf(entry[t])))

\* contains has found the tail key of a full cache of two or more keys, the
\* key the next put of a new key evicts
QueriesArePureWitness ==
    \E t \in Threads :
        /\ Returning(t, "contains")
        /\ ret[t].flag
        /\ capacity_ >= 2
        /\ Cardinality(DOMAIN entry[t].cache_) = capacity_
        /\ entry[t].heap[entry[t].tail_].key_ = key[t]

\* C13: with capacity_ >= 1 no assert inside get, put, remove or clear is
\* false when a body reaches it, also when remove takes out the only entry
\* and when put evicts.  (clear contains no assert.)
AssertionsHold ==
    \A t \in Threads :
        /\ (pc[t] = "body" /\ op[t] = "get") => get_asserts(Members, key[t])
        /\ (pc[t] = "body" /\ op[t] = "put") =>
              put_insert_asserts(Members, key[t], value[t])
        /\ pc[t] = "evict" => put_evict_asserts(Members, capacity_)
        /\ (pc[t] = "body" /\ op[t] = "remove") => remove_asserts(Members, key[t])

\* C14: a capacity of 0 is rejected when the cache is constructed: no put
\* ever executes on a cache whose capacity_ is 0.
ZeroCapacityRejected ==
    \A t \in Threads :
        (op[t] = "put" /\ pc[t] \in {"body", "evict", "unlock"}) => capacity_ >= 1

\* C17: get takes only shared access: a thread that has called get is not
\* kept waiting while the only thread inside the cache is itself in get, so
\* two gets can be in progress at once (while put is exclusive).
GetsShareAccess ==
    \A t, u \in Threads :
        (/\ t # u
         /\ pc[t] = "lock"
         /\ pc[u] \in {"body", "unlock"}
         /\ op[u] = "get") => ENABLED LockGet(t)

\* some thread inside a member function can take a step
NoDeadlock ==
    (\E t \in Threads : pc[t] # "idle") =>
        \E t \in Threads : pc[t] # "idle" /\ ENABLED (Enter(t) \/ Run(t))

ShutdownWakesWaiters ==
    \A t \in Threads :
        (mShutdown /\ \A u \in Threads \ {t} : qpc[u] = "idle") => t \notin mCondVar

\* thread t is about to return an item from a pop
Delivering(t) ==
    /\ qpc[t] = "unlock"
    /\ qop[t] \in {"try_pop", "wait_and_pop"}
    /\ qret[t].opt # <<>>

\* C19: with producers and consumers running concurrently, the items the pops
\* have returned followed by the items still queued are the items pushed, in
\* the order their pushes took effect: none is lost, none is returned twice,
\* they leave in FIFO order, and the queue is empty once as many were popped
\* as pushed.
Delivery ==
    /\ popped \o mQueue = pushed
    /\ Len(popped) = Len(pushed) => mQueue = <<>>
    /\ \A t \in Threads :
           Delivering(t) => /\ popped # <<>>
                            /\ qret[t].opt = <<popped[Len(popped)]>>

\* two different items were pushed and both were popped, in that order, and
\* wait_and_pop is returning the second while the queue is empty again
DeliveryWitness ==
    /\ pushed = <<1, 2>>
    /\ popped = pushed
    /\ mQueue = <<>>
    /\ \E t \in Threads :
           /\ Delivering(t)
           /\ qop[t] = "wait_and_pop"
           /\ qret[t].opt = <<2>>

\* thread t is inside wait_and_pop
InWaitAndPop(t) == qop[t] = "wait_and_pop"

\* a thread that is past the wait, or returns from wait_and_pop, has found an
\* item or the shutdown flag
ReturnsOnlyWhenReady ==
    /\ ~qfault
    /\ \A t \in Threads :
           /\ qpc[t] = "check" => predicate(mQueue, mShutdown)
           /\ (qpc[t] = "unlock" /\ InWaitAndPop(t)) =>
                  \/ qret[t].opt # <<>>
                  \/ qret[t].thrown /\ mShutdown

\* thread t is inside wait_and_pop and has not taken an item or thrown yet
StillToPop(t) == InWaitAndPop(t) /\ qpc[t] # "unlock"

\* a thread other than t is inside a pop
OtherPops(t) ==
    \E u \in Threads \ {t} : qop[u] \in {"try_pop", "wait_and_pop"}

Active == {w \in started : at[w] \notin {"exited", "blocked"}}

\* stop() waits in a join for a worker that is blocked in its wait, and no
\* worker is left that could notify it
StopHangs ==
    /\ Active = {}
    /\ \/ ctl = "join_producers" /\ not_full_ # {}
       \/ ctl = "join_consumers" /\ not_empty_ # {}

\* C21: a call of stop() returns with every producer and consumer exited, and
\* no worker stays blocked on not_full_ or not_empty_ after running_ became
\* false.  This is the part of it a finite run can refute: with a buffer of
\* one item or more, stop() never waits in a join for a blocked worker that
\* nothing is left to wake.
StopTerminates == buffer_size_ >= 1 => ~StopHangs

\* items_produced() and items_consumed()
items_produced == items_produced_
items_consumed == items_consumed_

\* C22: when stop() has returned after a run with at least one consumer, the
\* buffer is empty, items_produced() equals items_consumed(), and every item
\* that was pushed into the buffer was given to consumer_func exactly once;
\* no item is ever given to consumer_func twice.
GracefulDrain ==
    /\ \A i \in Serials : handed[i] <= 1
    /\ ctl = "stopped" =>
           /\ buffer_ = <<>>
           /\ items_produced = items_consumed
           /\ \A i \in Serials : handed[i] = (IF i \in was_pushed THEN 1 ELSE 0)

\* stop() has returned after two producers pushed an item each and a
\* consumer took both
GracefulDrainWitness ==
    /\ ctl = "stopped"
    /\ started \cap Consumers # {}
    /\ Cardinality(started \cap Producers) = 2
    /\ Cardinality(was_pushed) = 2
    /\ items_consumed = 2

\* current_buffer_size()
current_buffer_size == Len(buffer_)

\* C23: the buffer never holds more than buffer_size items, and a producer
\* that is about to push finds fewer than buffer_size items in it.
BoundedBuffer ==
    /\ current_buffer_size <= buffer_size_
    /\ \A p \in Producers :
           (at[p] = "check" /\ running_) => current_buffer_size < buffer_size_

\* the buffer is full and a producer with an item in hand is blocked on
\* not_full_
BoundedBufferWitness ==
    /\ buffer_size_ >= 1
    /\ current_buffer_size = buffer_size_
    /\ \E p \in Producers : p \in not_full_ /\ holding[p] # NoArg

\* the threads that hold the read lock, and those that hold the write lock
ReadersIn == {t \in Lockers : rw_pc[t] = "reading"}
WritersIn == {t \in Lockers : rw_pc[t] = "writing"}

\* C24: when each thread unlocks only what it locked, there are never two
\* writers at once and never a writer together with a reader; the lock's
\* counters say who is inside.
Exclusion ==
    /\ Cardinality(WritersIn) <= 1
    /\ WritersIn # {} => ReadersIn = {}
    /\ readers = Cardinality(ReadersIn)
    /\ writing = (WritersIn # {})

\* a thread holds the write lock while a reader and another writer are
\* blocked
ExclusionWitness ==
    /\ WritersIn # {}
    /\ can_read # {}
    /\ can_write # {}

\* C25: lock_read does not succeed while a writer is waiting: no reader is
\* counted in a step taken while a thread is blocked in lock_write.
WriterPriority == [][can_write # {} => readers' <= readers]_all_vars

\* C26: when no writer is active a lock_read succeeds whoever holds the read
\* lock: a reader is about to block only while a writer is active.
SharedReads ==
    \A t \in Lockers :
        (rw_op[t] = "lock_read" /\ rw_pc[t] = "wait") => writing

\* two threads hold the read lock at once
SharedReadsWitness ==
    /\ Cardinality(ReadersIn) >= 2
    /\ readers >= 2
    /\ ~writing

\* the resources that threads hold
HeldResources == UNION {held[t] : t \in Holders}

\* the threads whose acquire or try_acquire has left the guarded block
Granted == {t \in Holders : rp_pc[t] \in {"count", "load", "peak"}}

\* C27: ResourcePool exclusive allocation. With every holder releasing each
\* resource it acquired once, at most pool_size resources are held, no resource
\* is held by two holders, and every acquire() and every successful
\* try_acquire() gets a non-null resource, which nobody else holds or is about
\* to get.
ExclusiveAllocation ==
    /\ Cardinality(HeldResources) <= pool_size
    /\ \A t, u \in Holders : t # u => held[t] \cap held[u] = {}
    /\ \A t \in Granted :
           /\ resource[t] # NULL
           /\ resource[t] \notin HeldResources
           /\ \A u \in Granted \ {t} : resource[u] # resource[t]

\* the whole pool is held, by two threads, while a third resource was granted
\* at some time before (the pool has been through a release)
ExclusiveAllocationWitness ==
    /\ pool_size = MaxPoolSize
    /\ Cardinality(HeldResources) = pool_size
    /\ \A t \in Holders : held[t] # {}
    /\ total_releases_ > 0

\* ResourcePool::peak_usage()
peak_usage == peak_usage_

\* C28: ResourcePool peak bound. Under any interleaving of acquire,
\* try_acquire and release, each thread releasing only what it acquired,
\* peak_usage() never exceeds pool_size.
PeakBound == peak_usage <= pool_size

\* no thread is inside acquire, try_acquire or release
PoolAtRest == \A t \in Holders : rp_pc[t] = "idle"

\* ResourcePool::current_usage(), called while the pool is at rest
current_usage_at_rest == SizeSub(total_acquisitions_, total_releases_)

\* ResourcePool::available_count()
available_count == Len(resource_pool_)

\* C29: ResourcePool accounting. While no acquire, try_acquire or release is in
\* progress, current_usage() is the number of resources held and
\* available_count() is pool_size minus that number; so with everything
\* released they are 0 and pool_size.
Accounting ==
    PoolAtRest =>
        /\ current_usage_at_rest = Cardinality(HeldResources)
        /\ available_count = pool_size - Cardinality(HeldResources)
        /\ HeldResources = {} =>
               current_usage_at_rest = 0 /\ available_count = pool_size

\* the pool is at rest with one resource out, after another has been released
AccountingWitness ==
    /\ PoolAtRest
    /\ Cardinality(HeldResources) = 1
    /\ total_releases_ > 0
    /\ pool_size = MaxPoolSize

\* thread t waits for a permit in acquire()
BlockedInAcquire(t) == rp_pc[t] = "semaphore" /\ rp_op[t] = "acquire"

\* a release is past its guarded block, or has gone through: a permit is there
\* or on its way
Released ==
    \/ available_resources_ > 0
    \/ \E u \in Holders : rp_pc[u] \in {"count_release", "post"}

\* thread u has just got a permit
GotPermit(u) == rp_pc[u] = "take"

WaitsForFork(p) ==
    \/ /\ dp_pc[p] = "left"
       /\ forks_[minfork(p, num_philosophers_)] # NoPhilosopher
    \/ /\ dp_pc[p] = "right"
       /\ forks_[maxfork(p, num_philosophers_)] # NoPhilosopher

\* the forks philosopher p has locked
ForksOf(p) == {f \in Seats(num_philosophers_) : forks_[f] = p}

\* C31: DiningPhilosophers deadlock freedom. For every table of two or more,
\* while running, some philosopher is not waiting for a fork that is locked;
\* and a philosopher that has one fork has the lower-numbered of its two forks.
DeadlockFreedom ==
    /\ dining_running_ =>
           \E p \in Seats(num_philosophers_) : ~WaitsForFork(p)
    /\ \A p \in Seats(num_philosophers_) :
           Cardinality(ForksOf(p)) = 1 =>
               \A f \in ForksOf(p) :
                   f <= p /\ f <= (p + 1) % num_philosophers_

\* at the largest table all philosophers but one wait for a locked fork
DeadlockFreedomWitness ==
    /\ dining_running_
    /\ num_philosophers_ = MaxPhilosophers
    /\ Cardinality({p \in Seats(num_philosophers_) : WaitsForFork(p)})
           = num_philosophers_ - 1

\* C32: DiningPhilosophers detection. is_deadlocked() returns false in every
\* state between start_dining() and the end of stop_dining().
NeverDetected == detected = FALSE

StopReturns == dp_ctl # "terminated"

\* thread t is inside try_pop
InTryPop(t) == qop[t] = "try_pop"

\* C34: try_pop on an empty queue returns nullopt and leaves the queue and the
\* shutdown flag as they are; on a non-empty queue it returns the front item
\* and removes that item and no other; and it never waits on the condition
\* variable.
TryPopContract ==
    [][\A t \in Threads :
           /\ InTryPop(t)' => qpc'[t] \in {"body", "unlock"} /\ t \notin mCondVar'
           /\ (InTryPop(t) /\ qpc[t] = "body" /\ qpc'[t] = "unlock") =>
                  IF mQueue = <<>>
                  THEN /\ qret'[t].opt = <<>>
                       /\ mQueue' = mQueue
                       /\ mShutdown' = mShutdown
                  ELSE /\ qret'[t].opt = <<Head(mQueue)>>
                       /\ mQueue' = Tail(mQueue)
                       /\ mShutdown' = mShutdown]_all_vars

\* try_pop has found the queue empty, after the queue has been through a push
\* and a pop
TryPopContractWitness ==
    \E t \in Threads :
        /\ InTryPop(t)
        /\ qpc[t] = "unlock"
        /\ qret[t].opt = <<>>
        /\ mQueue = <<>>
        /\ popped # <<>>

\* thread t takes the step of wait_and_pop or try_pop that pops or throws
PopStep(t) ==
    /\ qop[t] \in {"wait_and_pop", "try_pop"}
    /\ qpc[t] \in {"body", "check"}
    /\ qpc'[t] = "unlock"

\* C38: drain after shutdown. wait_and_pop throws only when shutdown() has been
\* called and the queue is empty at that moment; what is queued when
\* shutdown() is called, or pushed afterwards, still comes out of wait_and_pop
\* and try_pop front first; and shutdown() removes no item.
DrainAfterShutdown ==
    [][\A t \in Threads :
           /\ (qret'[t].thrown /\ ~qret[t].thrown) => mShutdown /\ mQueue = <<>>
           /\ (PopStep(t) /\ mShutdown /\ mQueue # <<>>) =>
                  /\ ~qret'[t].thrown
                  /\ qret'[t].opt = <<Head(mQueue)>>
                  /\ mQueue' = Tail(mQueue)
           /\ (qop'[t] = "shutdown") # (qop[t] = "shutdown") => mQueue' = mQueue]_all_vars

\* after shutdown() a wait_and_pop has returned the second of two items that
\* were queued
DrainAfterShutdownWitness ==
    \E t \in Threads :
        /\ mShutdown
        /\ InWaitAndPop(t)
        /\ qpc[t] = "unlock"
        /\ ~qret[t].thrown
        /\ qret[t].opt # <<>>
        /\ Len(popped) = 2

\* C36: ReadWriteLock writer starvation prevention. With every thread that
\* holds the lock releasing it, and under fair scheduling, a thread that has
\* called lock_write gets the write lock, whatever the readers do.
WriterProgress ==
    \A t \in Lockers :
        (rw_op[t] = "lock_write") ~> (rw_pc[t] = "writing")

\* C37: ResourcePool peak tracking. At every quiescent point peak_usage() is
\* the largest number of resources that were held at once so far, through
\* acquire() or try_acquire(); so it is at least the number held right now.
PeakTracksHeld == PoolAtRest => peak_usage >= Cardinality(HeldResources)

\* the exception of a failed put is on its way out of thread t's call
Throwing(t) == pc[t] = "unwind" /\ op[t] = "put"

\* C39: ThreadSafeCache failure atomicity. When put(k, v) of a new key fails
\* in the allocation of the node or in the insertion into the index, the
\* index, the chain, head_ and tail_ are those of the moment before the call,
\* and the invariants of index and chain hold.
FailureAtomicity ==
    /\ \A t \in Threads :
           Throwing(t) =>
               /\ Members = MembersOf(entry[t])
               /\ touched = entry[t].touched
    /\ (\E t \in Threads : Throwing(t)) => IndexMatchesChain /\ ChainWellFormed

\* a put into a full cache of two or more entries has failed
FailureAtomicityWitness ==
    \E t \in Threads :
        /\ Throwing(t)
        /\ Cardinality(DOMAIN cache_) = capacity_
        /\ capacity_ >= 2

\* the nodes the index refers to
IndexedNodes == {cache_[k] : k \in DOMAIN cache_}

\* the nodes that were live when thread t's call took the mutex and whose key
\* the call has taken out of the cache
Discarded(t) ==
    {n \in DOMAIN entry[t].heap : entry[t].heap[n].key_ \notin DOMAIN cache_}

\* the nodes thread t's call has made
Created(t) == (DOMAIN heap) \ (DOMAIN entry[t].heap)

\* C40: ThreadSafeCache node lifecycle. The live nodes are those of the
\* resident keys. A call makes a node only in a put of a key that was not
\* resident, and the nodes it destroys are those of the keys an eviction, a
\* remove or a clear took out; such a node is then referenced by neither
\* head_, tail_, an index entry nor the prev_/next_ of a live node.
NodeLifecycle ==
    /\ AtRest =>
           /\ DOMAIN heap = IndexedNodes
           /\ \A k \in DOMAIN cache_ : heap[cache_[k]].key_ = k
    /\ \A t \in Threads :
           pc[t] = "unlock" =>
               /\ \A n \in Created(t) :
                      /\ op[t] = "put"
                      /\ key[t] \notin DOMAIN entry[t].cache_
                      /\ heap[n].key_ = key[t]
               /\ (DOMAIN entry[t].heap) \ (DOMAIN heap) = Discarded(t)
               /\ Discarded(t) # {} => op[t] \in {"put", "remove", "clear"}
               /\ \A n \in Discarded(t) : ~Referenced(Members, n)

\* a put has made its node and evicted another, at the same moment of which
\* other nodes stay resident
NodeLifecycleWitness ==
    \E t \in Threads :
        /\ Returning(t, "put")
        /\ Created(t) # {}
        /\ Discarded(t) # {}
        /\ Cardinality(DOMAIN heap) >= 2

====
